---------------------------- MODULE Spec2Model ----------------------------
(***************************************************************************)
(* A model of the form-analysis engine of trainer_backend                  *)
(* (form_analysis/analyzer.py): analyze_video, the five per-exercise       *)
(* analyzers with their running-range calibration, two-phase state         *)
(* machine and rep grading, and the life cycle of the video capture.       *)
(*                                                                         *)
(* Numbers.  The code computes in floating point; the model computes the   *)
(* same quantities exactly, on scaled integers:                            *)
(*   - a Y coordinate is an integer number of pixels, a primary signal     *)
(*     that is a mean of Y coordinates is kept multiplied by Scale;       *)
(*   - an angle returned by calculate_angle is an integer number of        *)
(*     degrees, a per-frame mean of one or two angles is kept in           *)
(*     half-degrees, a median of such means in quarter-degrees;            *)
(*   - a rounded metric_value is kept in tenths.                           *)
(* An X coordinate is kept only up to zero / non-zero, so the value        *)
(* calculate_angle (and arctan2) computes from the exact coordinates is    *)
(* an input of the frame: each detection carries the angle at each vertex. *)
(***************************************************************************)
EXTENDS Integers, Sequences, FiniteSets, TLC

(* ------------------------------ bounds --------------------------------- *)

\* frames a video holds at most
MaxFrames == 15
\* largest Y coordinate (pixels) a keypoint takes
MaxY == 3
\* full cycles of the synthetic push-up signal
MaxCycles == 3

(* ------------------------- program constants --------------------------- *)

FRAME_STRIDE == 3

NOSE == 0
L_SHOULDER == 5
R_SHOULDER == 6
L_ELBOW == 7
R_ELBOW == 8
L_WRIST == 9
R_WRIST == 10
L_HIP == 11
R_HIP == 12

\* length of the keypoint array of one detection (COCO-17)
KptLen == 17
\* the length of a keypoint array that ends before the first shoulder: the face only
ShortLen == L_SHOULDER

\* a mean of up to six integers is kept multiplied by Scale, which makes it exact
Scale == 60

\* the value Python's None stands for, where a number is expected
None == -1
\* _get_keypoint's None
NoKp == <<>>

(* ------------------------------ helpers -------------------------------- *)

Range(s) == {s[i] : i \in DOMAIN s}

RECURSIVE SumSeq(_)
SumSeq(s) == IF s = <<>> THEN 0 ELSE Head(s) + SumSeq(Tail(s))

Min2(a, b) == IF a <= b THEN a ELSE b
Max2(a, b) == IF a >= b THEN a ELSE b

\* np.min / np.max of a non-empty list
SeqMin(s) == CHOOSE x \in Range(s) : \A y \in Range(s) : x <= y
SeqMax(s) == CHOOSE x \in Range(s) : \A y \in Range(s) : x >= y

\* the k-th smallest element of a list (1-based), as sorting would place it
KthSmallest(s, k) ==
    CHOOSE x \in Range(s) :
        /\ Cardinality({i \in DOMAIN s : s[i] < x}) < k
        /\ Cardinality({i \in DOMAIN s : s[i] <= x}) >= k

\* np.median of a non-empty list, times 2 (the mean of the two middle
\* elements of an even-length list is a half)
Median2(s) ==
    LET n == Len(s)
    IN IF n % 2 = 1 THEN 2 * KthSmallest(s, (n + 1) \div 2)
       ELSE KthSmallest(s, n \div 2) + KthSmallest(s, n \div 2 + 1)

\* Filter a list, keeping order
RECURSIVE SelectGt(_, _)
SelectGt(s, bound) ==
    IF s = <<>> THEN <<>>
    ELSE IF Head(s) > bound THEN <<Head(s)>> \o SelectGt(Tail(s), bound)
         ELSE SelectGt(Tail(s), bound)

(* ------------------------- exercise names ------------------------------ *)
\* A name is its sequence of characters, so that str.lower() is computed.

Lower(c) ==
    CASE c = "A" -> "a" [] c = "B" -> "b" [] c = "C" -> "c" [] c = "D" -> "d"
      [] c = "E" -> "e" [] c = "F" -> "f" [] c = "G" -> "g" [] c = "H" -> "h"
      [] c = "I" -> "i" [] c = "J" -> "j" [] c = "K" -> "k" [] c = "L" -> "l"
      [] c = "M" -> "m" [] c = "N" -> "n" [] c = "O" -> "o" [] c = "P" -> "p"
      [] c = "Q" -> "q" [] c = "R" -> "r" [] c = "S" -> "s" [] c = "T" -> "t"
      [] c = "U" -> "u" [] c = "V" -> "v" [] c = "W" -> "w" [] c = "X" -> "x"
      [] c = "Y" -> "y" [] c = "Z" -> "z" [] OTHER -> c

\* lower with a plausible bug: the name is looked up as it was given
NameAsGiven(name) == name

\* str.lower()
lower(name) == [i \in DOMAIN name |-> Lower(name[i])]

KeyPushups == <<"p", "u", "s", "h", "-", "u", "p", "s">>
KeyPullups == <<"p", "u", "l", "l", "-", "u", "p", "s">>
KeyBench == <<"b", "e", "n", "c", "h", " ", "p", "r", "e", "s", "s">>
KeyCurls == <<"c", "u", "r", "l", "s">>
KeyCrunches == <<"c", "r", "u", "n", "c", "h", "e", "s">>

\* the registry: lower-case name -> analyzer function
ANALYZERS ==
    (KeyPushups :> "_analyze_pushups") @@ (KeyPullups :> "_analyze_pullups")
    @@ (KeyBench :> "_analyze_bench_press") @@ (KeyCurls :> "_analyze_curls")
    @@ (KeyCrunches :> "_analyze_crunches")

NoAnalyzer == "None"

\* AnalyzersGet with a plausible bug: a default analyzer for an unknown key
AnalyzersGetDefault(key) ==
    IF key \in DOMAIN ANALYZERS THEN ANALYZERS[key] ELSE "_analyze_pushups"

\* ANALYZERS.get(key)
AnalyzersGet(key) == IF key \in DOMAIN ANALYZERS THEN ANALYZERS[key] ELSE NoAnalyzer

\* the names analyze_video is called with: the seeded names, other spellings of
\* them, and names that are not registered
ExerciseNames ==
    { <<"P", "u", "s", "h", "-", "u", "p", "s">>,
      <<"P", "u", "l", "l", "-", "u", "p", "s">>,
      <<"B", "e", "n", "c", "h", " ", "P", "r", "e", "s", "s">>,
      <<"C", "u", "r", "l", "s">>,
      <<"C", "r", "u", "n", "c", "h", "e", "s">>,
      <<"p", "u", "l", "l", "-", "u", "p", "s">>,
      <<"P", "U", "L", "L", "-", "U", "P", "S">>,
      <<"S", "q", "u", "a", "t", "s">>,
      <<"p", "u", "s", "h", "u", "p", "s">>,
      <<>> }


(* --------------------------- detector output --------------------------- *)
\* One detection: a confidence, the keypoint array (a sequence of <<x, y>>,
\* element idx + 1 holding joint idx; <<0, 0>> is what the detector writes for
\* a joint it did not find), and the geometry of the exact coordinates: ang[v]
\* is the angle in degrees at vertex v (hip-shoulder-elbow at a shoulder,
\* shoulder-elbow-wrist at an elbow), trunk the trunk angle from horizontal.
\* What the pose model returns for a frame is the list of its detections; a
\* frame of a video is given as that list.

Vertices == {L_SHOULDER, R_SHOULDER, L_ELBOW, R_ELBOW}

Kpts(len, assign) ==
    [i \in 1..len |->
        IF (i - 1) \in DOMAIN assign THEN assign[i - 1] ELSE <<0, 0>>]

Ang(ls, rs, le, re) ==
    (L_SHOULDER :> ls) @@ (R_SHOULDER :> rs) @@ (L_ELBOW :> le) @@ (R_ELBOW :> re)

Det(conf, kpts, ang, trunk) ==
    [conf |-> conf, kpts |-> kpts, ang |-> ang, trunk |-> trunk]

NoAng == Ang(0, 0, 0, 0)

\* the frame in which the pose model finds nobody
NoPersonFrame == <<>>

Ys == 1..MaxY

\* _get_keypoint with a plausible bug: `or` for `and`, so that a joint with one
\* zero coordinate counts as present
GetKeypointOr(person_kpts, idx) ==
    IF /\ idx < Len(person_kpts)
       /\ (person_kpts[idx + 1][1] # 0 \/ person_kpts[idx + 1][2] # 0)
    THEN person_kpts[idx + 1]
    ELSE NoKp

\* _get_keypoint with a plausible bug: only the Y of the joint is tested
GetKeypointYOnly(person_kpts, idx) ==
    IF /\ idx < Len(person_kpts)
       /\ person_kpts[idx + 1][2] # 0
    THEN person_kpts[idx + 1]
    ELSE NoKp

\* _get_keypoint(person_kpts, idx)
_get_keypoint(person_kpts, idx) ==
    IF /\ idx < Len(person_kpts)
       /\ person_kpts[idx + 1][1] # 0
       /\ person_kpts[idx + 1][2] # 0
    THEN person_kpts[idx + 1]
    ELSE NoKp

\* scores.argmax(): the first index of the largest confidence
ArgMax(results) ==
    CHOOSE i \in DOMAIN results :
        /\ \A j \in DOMAIN results : results[j].conf <= results[i].conf
        /\ \A j \in DOMAIN results : j < i => results[j].conf < results[i].conf

NoPerson == [conf |-> 0, kpts |-> <<>>, ang |-> NoAng, trunk |-> None]

\* the value of `results` before the pose model has run
NoResults == <<NoPerson>>

\* _extract_main_person(results): the most confident detection, or None
_extract_main_person(results) ==
    IF Len(results) = 0 THEN NoPerson ELSE results[ArgMax(results)]

\* calculate_angle(point_a, point_b, point_c): the angle at vertex b, read from
\* the detection's geometry (0 is also what the code returns for a zero-length ray)
calculate_angle(person, a, b, c) == person.ang[b]

\* float(np.mean(ys)) of a non-empty list of integers, times Scale
Mean(ys) == (Scale * SumSeq(ys)) \div Len(ys)

\* the list of the present keypoints' Y coordinates, in the order given
PresentYs(kps) ==
    LET RECURSIVE F(_)
        F(s) == IF s = <<>> THEN <<>>
                ELSE IF Head(s) # NoKp THEN <<Head(s)[2]>> \o F(Tail(s))
                     ELSE F(Tail(s))
    IN F(kps)

(* ------------------------- frames of each video ------------------------ *)

\* flare angles a push-up video shows: noise (<= 10), tucked, flared
FlareAngles == {8, 74, 76}

SideJoints(sh, el, hip, y) == (sh :> <<1, y>>) @@ (el :> <<1, y>>) @@ (hip :> <<1, y>>)

PushupFrames ==
    {NoPersonFrame}
    \cup { <<Det(9, Kpts(ShortLen, [i \in 0..(ShortLen - 1) |-> <<1, y>>]), NoAng, 0)>> : y \in {1} }
    \* one shoulder only, once with a zero X
    \cup { <<Det(9, Kpts(KptLen, (L_SHOULDER :> <<x, y>>)), NoAng, 0)>> : x \in {0, 1}, y \in Ys }
    \* both shoulders, the right one with a zero X
    \cup { <<Det(9, Kpts(KptLen, (L_SHOULDER :> <<1, 1>>) @@ (R_SHOULDER :> <<0, MaxY>>)), NoAng, 0)>> }
    \* the left side
    \cup { <<Det(9, Kpts(KptLen, SideJoints(L_SHOULDER, L_ELBOW, L_HIP, y)), Ang(a, 0, 0, 0), 0)>> :
              y \in Ys, a \in FlareAngles }
    \* both sides, the right one a pixel lower
    \cup { <<Det(9, Kpts(KptLen, SideJoints(L_SHOULDER, L_ELBOW, L_HIP, y)
                                  @@ SideJoints(R_SHOULDER, R_ELBOW, R_HIP, y + 1)),
                 Ang(a[1], a[2], 0, 0), 0)>> :
              y \in 1..(MaxY - 1), a \in {<<74, 76>>, <<8, 76>>, <<8, 8>>} }
    \* two detections: the more confident one decides
    \cup { <<Det(c, Kpts(KptLen, SideJoints(L_SHOULDER, L_ELBOW, L_HIP, MaxY)), Ang(76, 0, 0, 0), 0),
             Det(5, Kpts(KptLen, <<>>), NoAng, 0)>> : c \in {3, 5, 7} }


(* ------------------------------- state --------------------------------- *)

VARIABLES
    pc,                 \* where the call of analyze_video stands
    exercise_name,      \* analyze_video's argument
    analyzer,           \* the function ANALYZERS.get returned
    video,              \* can the file at video_path be opened: "ok", "unopenable"
                        \* ("none" before the call)
    stream_end,         \* why cap.read() returned ret = False: "exhausted",
                        \* "open_error", "decode_error" ("none" while it has not)
    model,              \* the pose model: "unloaded" or "loaded"
    cap,                \* the video capture: "none", "held" or "released"
    frame_idx,
    results,            \* what model(frame) returned for the last sampled frame
    state,
    min_y, max_y,       \* running range of the primary signal (min_head_y, min_wrist_y, ...)
    current_rep_angles, \* samples of the open window (current_rep_bottom_angles, current_rep_lifts)
    upper_arm_angles,
    chin_above_bar,
    lockout_reached,
    rep_details,
    good, bad,
    result,             \* <<>> or <<the dict returned>>
    load_suggestion,    \* analyze_form's load_suggestion, <<>> until it is computed
    outcome,            \* how the last loop iteration ended: "stride", "no_person" and
                        \* "no_joints" (the three `continue`s), "processed", "raised"
    opens, closes,      \* rep windows opened and closed so far
    fed,                \* what model(frame) returned for each frame sampled so far, when
                        \* the run is one of two workers' (<<>> otherwise)
    other,              \* the variables of the run of the other worker, which is suspended
    proto,              \* the locals of the Streamlit prototype's loop, run on the same frames
    tmp,                \* analyze_form's temp file: "none", "exists" or "deleted"
    response,           \* the status of the response analyze_form returned, 0 before it has
    analyses,           \* the FormAnalysis table, oldest row first
    paginator,          \* has_more, next_cursor and the page of the last list_analyses
    listing             \* what a client paging through list_analyses has been sent

locals == <<state, min_y, max_y, current_rep_angles, upper_arm_angles,
            chin_above_bar, lockout_reached, rep_details, good, bad>>

history == <<outcome, opens, closes>>

web == <<tmp, response, analyses, paginator, listing>>

vars == <<pc, exercise_name, analyzer, video, stream_end, model, cap, frame_idx, results, locals,
          result, load_suggestion, history, fed, other, proto, web>>

\* the prototype's loop before it is started
ProtoIdle ==
    [state |-> "none", min_y |-> None, max_y |-> None, current_rep_angles |-> <<>>,
     chin_above_bar |-> FALSE, good_count |-> 0, bad_count |-> 0, total_reps |-> 0]

\* a paginator that has served no request, and a client that has sent none
\* (next_cursor is a string, <<>> standing for null: `if cursor:` takes neither)
NoCursor == <<>>
NoPage == [has_more |-> FALSE, next_cursor |-> NoCursor, items |-> <<>>]
NoListing == [started |-> FALSE, first |-> {}, received |-> <<>>]

\* no request has reached analyze_form or list_analyses, and the table is empty
WebIdle ==
    /\ tmp = "none"
    /\ response = 0
    /\ analyses = <<>>
    /\ paginator = NoPage
    /\ listing = NoListing

\* the variables of a worker that has not called analyze_video
Idle ==
    [pc |-> "idle", exercise_name |-> <<>>, analyzer |-> NoAnalyzer, video |-> "none",
     stream_end |-> "none", model |-> "unloaded", cap |-> "none", frame_idx |-> 0,
     results |-> NoResults, state |-> "none", min_y |-> None, max_y |-> None,
     current_rep_angles |-> <<>>, upper_arm_angles |-> <<>>, chin_above_bar |-> FALSE,
     lockout_reached |-> FALSE, rep_details |-> <<>>, good |-> 0, bad |-> 0, result |-> <<>>,
     load_suggestion |-> <<>>, outcome |-> "none", opens |-> 0, closes |-> 0, fed |-> <<>>]

Videos == {"ok", "unopenable"}

Init ==
    /\ pc = "idle"
    /\ exercise_name = <<>>
    /\ analyzer = NoAnalyzer
    /\ video = "none"
    /\ stream_end = "none"
    /\ model = "unloaded"
    /\ cap = "none"
    /\ frame_idx = 0
    /\ results = NoResults
    /\ state = "none"
    /\ min_y = None
    /\ max_y = None
    /\ current_rep_angles = <<>>
    /\ upper_arm_angles = <<>>
    /\ chin_above_bar = FALSE
    /\ lockout_reached = FALSE
    /\ rep_details = <<>>
    /\ good = 0
    /\ bad = 0
    /\ result = <<>>
    /\ load_suggestion = <<>>
    /\ outcome = "none"
    /\ opens = 0
    /\ closes = 0
    /\ fed = <<>>
    /\ other = Idle
    /\ proto = ProtoIdle
    /\ WebIdle

(* ---------------------------- analyze_video ---------------------------- *)

\* InitialState with a plausible bug: every analyzer starts "up"
InitialStateUp(fn) == "up"

\* the phase each analyzer starts in
InitialState(fn) ==
    IF fn \in {"_analyze_pushups", "_analyze_bench_press"} THEN "up" ELSE "down"

\* analyze_video(exercise_name, video_path) up to the analyzer's first cap.read():
\* the lookup, the ValueError, and the analyzer's prologue
analyze_video(name, file) ==
    /\ pc = "idle"
    /\ UNCHANGED <<fed, other>>
    /\ exercise_name' = name
    /\ video' = file
    /\ analyzer' = AnalyzersGet(lower(name))
    /\ IF analyzer' = NoAnalyzer
       THEN /\ pc' = "ValueError"
            /\ UNCHANGED <<model, cap, state>>
       ELSE /\ pc' = "loop"
            /\ model' = "loaded"
            /\ cap' = "held"
            /\ state' = InitialState(analyzer')
    /\ UNCHANGED <<stream_end, frame_idx, results, min_y, max_y, current_rep_angles,
                   upper_arm_angles, chin_above_bar, lockout_reached, rep_details, good, bad,
                   result, load_suggestion, history>>

\* Result with a plausible bug: total_reps counts the good reps only
ResultGoodOnly(g, b, details) ==
    [total_reps |-> g, good_reps |-> g, bad_reps |-> b, rep_details |-> details]

\* the dict an analyzer returns
Result(g, b, details) ==
    [total_reps |-> g + b, good_reps |-> g, bad_reps |-> b, rep_details |-> details]

\* EndOfStream with a plausible bug: when cap.read() returns ret = False the
\* stream is opened again and read from its first frame
EndOfStreamReopens(cause) ==
    /\ pc = "loop"
    /\ video = "unopenable" <=> cause = "open_error"
    /\ frame_idx > 0
    /\ frame_idx' = 0
    /\ UNCHANGED <<pc, exercise_name, analyzer, video, stream_end, model, cap, results, locals,
                   result, load_suggestion, history, fed, other, proto, web>>

\* EndOfStream with a plausible bug: a window that is open when the stream ends
\* is counted as a bad rep
EndOfStreamCountsOpen(cause) ==
    /\ pc = "loop"
    /\ UNCHANGED <<fed, other, proto, web>>
    /\ video = "unopenable" <=> cause = "open_error"
    /\ stream_end' = cause
    /\ cap' = "released"
    /\ result' = <<Result(good, bad + (opens - closes), rep_details)>>
    /\ pc' = "done"
    /\ UNCHANGED <<exercise_name, analyzer, video, model, frame_idx, results, locals,
                   load_suggestion, history>>

\* cap.read() returns ret = False (the stream is exhausted, or the file could not
\* be opened or decoded: OpenCV reports all three the same way): break,
\* cap.release(), return
EndOfStream(cause) ==
    /\ pc = "loop"
    /\ UNCHANGED <<fed, other, proto, web>>
    /\ video = "unopenable" <=> cause = "open_error"
    /\ stream_end' = cause
    /\ cap' = "released"
    /\ result' = <<Result(good, bad, rep_details)>>
    /\ pc' = "done"
    /\ UNCHANGED <<exercise_name, analyzer, video, model, frame_idx, results, locals,
                   load_suggestion, history>>

\* Sampled with a plausible bug: the index is tested before it is incremented,
\* so that the first frame and every third one after it are sampled
SampledFromFirst(idx) == (idx - 1) % FRAME_STRIDE = 0

\* does the loop body go past `if frame_idx % FRAME_STRIDE != 0: continue`
Sampled(idx) == idx % FRAME_STRIDE = 0

\* model(frame) raises on a sampled frame: the exception leaves the analyzer and
\* analyze_video through no handler
DetectorRaises ==
    /\ pc = "loop"
    /\ UNCHANGED <<fed, other, proto, web>>
    /\ video = "ok"
    /\ frame_idx < MaxFrames
    /\ Sampled(frame_idx + 1)
    /\ frame_idx' = frame_idx + 1
    /\ pc' = "raised"
    /\ outcome' = "raised"
    /\ UNCHANGED <<exercise_name, analyzer, video, stream_end, model, cap, results, locals,
                   result, load_suggestion, opens, closes>>

\* an iteration that stops at `if frame_idx % FRAME_STRIDE != 0: continue`: the
\* frame is read and dropped, the pose model is not run (the same in all five loops)
StrideSkip ==
    /\ pc = "loop"
    /\ UNCHANGED <<fed, other, proto, web>>
    /\ video = "ok"
    /\ frame_idx < MaxFrames
    /\ ~Sampled(frame_idx + 1)
    /\ frame_idx' = frame_idx + 1
    /\ outcome' = "stride"
    /\ UNCHANGED <<pc, exercise_name, analyzer, video, stream_end, model, cap, results, locals,
                   result, load_suggestion, opens, closes>>


(* ------------------------- calibration and phases ---------------------- *)

\* NewMin with a plausible bug: max for min
NewMinByMax(mn, v) == IF mn = None THEN v ELSE Max2(mn, v)

\* min(min_y, v) / max(max_y, v) after `if min_y is None: min_y = max_y = v`
NewMin(mn, v) == IF mn = None THEN v ELSE Min2(mn, v)
\* NewMax with a plausible bug: the running maximum is overwritten by the sample
NewMaxOverwritten(mx, v) == v

NewMax(mx, v) == IF mx = None THEN v ELSE Max2(mx, v)

\* Thresh with a plausible bug: one threshold, half way, for every fraction
ThreshMidway(lo, span, pct, flat) ==
    IF span > 0 THEN 100 * lo + 50 * span ELSE 100 * flat

\* Thresh with a plausible bug: the fraction is measured down from the maximum
ThreshFromTop(lo, span, pct, flat) ==
    IF span > 0 THEN 100 * (lo + span) - pct * span ELSE 100 * flat

\* `lo + f * span if span > 0 else flat`, times 100, with f = pct / 100
Thresh(lo, span, pct, flat) == IF span > 0 THEN 100 * lo + pct * span ELSE 100 * flat

\* Above with a plausible bug: `>=` for `>`
AboveOrEqual(v, thresh) == 100 * v >= thresh

\* Above with a plausible bug: a dead band of one pixel (or degree) over the
\* threshold
AboveByOne(v, thresh) == 100 * v > thresh + 100 * Scale

\* v > thresh and v < thresh, thresh being kept times 100
Above(v, thresh) == 100 * v > thresh
Below(v, thresh) == 100 * v < thresh

\* Cleared with a plausible bug: the samples of the last window are kept
ClearedNever(enter, acc) == acc

\* `current_rep_angles = []` (and its like) in the branch that enters the active
\* phase: the accumulator acc after that branch
Cleared(enter, acc) == IF enter THEN <<>> ELSE acc

\* ResetFlag with a plausible bug: the flag of the last rep is kept
ResetFlagNever(enter, flag) == flag

\* `chin_above_bar = False` / `lockout_reached = False` in the branch that enters
\* the active phase: the flag after that branch
ResetFlag(enter, flag) == IF enter THEN FALSE ELSE flag

\* RepNum with a plausible bug: the reps are numbered from 0
RepNumFromZero(g, b) == g + b

\* rep_num = good + bad + 1
RepNum(g, b) == g + b + 1

\* Tally with a plausible bug: both counters are incremented on every rep
TallyBoth(n, graded, status, which) == IF graded THEN n + 1 ELSE n

\* `good += 1` in the branch of a "good" rep, `bad += 1` in that of a "bad" one:
\* counter n of the reps of status `which`, after a rep of status `status` if `graded`
Tally(n, graded, status, which) == IF graded /\ status = which THEN n + 1 ELSE n

\* Python's round(num / den, 1), in tenths: to the nearest tenth, a tie to the
\* even one (num / den is a multiple of a quarter here, which a float holds exactly)
Round1(num, den) ==
    LET fl == (10 * num) \div den
        twice == 2 * ((10 * num) % den)
    IN IF twice < den THEN fl
       ELSE IF twice > den THEN fl + 1
       ELSE IF fl % 2 = 0 THEN fl ELSE fl + 1

\* one entry of rep_details; feedback is the list of the clauses joined
Rep(n, status, metric, feedback) ==
    [rep |-> n, status |-> status, metric_value |-> metric, feedback |-> feedback]

(* ------------------------------ push-ups ------------------------------- *)

threshold == 75

\* lines 122-134: the six torso joints and the mean of the present ones' Y
PushupKpts(person) ==
    << _get_keypoint(person.kpts, L_SHOULDER), _get_keypoint(person.kpts, R_SHOULDER),
       _get_keypoint(person.kpts, L_ELBOW), _get_keypoint(person.kpts, R_ELBOW),
       _get_keypoint(person.kpts, L_HIP), _get_keypoint(person.kpts, R_HIP) >>

\* PushupFlare with a plausible bug: the larger of the two sides' angles for
\* their mean
PushupFlareMax(person) ==
    LET k == PushupKpts(person)
        left == IF k[1] # NoKp /\ k[5] # NoKp /\ k[3] # NoKp
                THEN <<calculate_angle(person, L_HIP, L_SHOULDER, L_ELBOW)>> ELSE <<>>
        right == IF k[2] # NoKp /\ k[6] # NoKp /\ k[4] # NoKp
                 THEN <<calculate_angle(person, R_HIP, R_SHOULDER, R_ELBOW)>> ELSE <<>>
        valid == SelectGt(left \o right, 10)
    IN IF valid # <<>> THEN Scale * SeqMax(valid) ELSE 0

\* lines 146-152: the flare of the frame, times Scale; 0 when no side gives one
PushupFlare(person) ==
    LET k == PushupKpts(person)
        left == IF k[1] # NoKp /\ k[5] # NoKp /\ k[3] # NoKp
                THEN <<calculate_angle(person, L_HIP, L_SHOULDER, L_ELBOW)>> ELSE <<>>
        right == IF k[2] # NoKp /\ k[6] # NoKp /\ k[4] # NoKp
                 THEN <<calculate_angle(person, R_HIP, R_SHOULDER, R_ELBOW)>> ELSE <<>>
        valid == SelectGt(left \o right, 10)
    IN IF valid # <<>> THEN Mean(valid) ELSE 0

\* PushupGrade with a plausible bug: `>=` for `>`, a median at the threshold is bad
PushupGradeAtThreshold(angles, g, b) ==
    LET median_flare2 == Median2(angles)
        metric == Round1(median_flare2, 2 * Scale)
    IN IF median_flare2 >= 2 * Scale * threshold
       THEN Rep(RepNum(g, b), "bad", metric, <<"Elbow flare too wide">>)
       ELSE Rep(RepNum(g, b), "good", metric, <<"Good form - elbows tucked properly">>)

\* lines 162-180: the grade of a closed window with samples
PushupGrade(angles, g, b) ==
    LET median_flare2 == Median2(angles)
        metric == Round1(median_flare2, 2 * Scale)
    IN IF median_flare2 > 2 * Scale * threshold
       THEN Rep(RepNum(g, b), "bad", metric, <<"Elbow flare too wide">>)
       ELSE Rep(RepNum(g, b), "good", metric, <<"Good form - elbows tucked properly">>)

\* lines 136-180: calibration, state machine and grading on one valid frame
PushupsMachine(torso_y, flare) ==
    LET mn == NewMin(min_y, torso_y)
        mx == NewMax(max_y, torso_y)
        span == mx - mn
        down_thresh == Thresh(mn, span, 60, mn)
        up_thresh == Thresh(mn, span, 30, mx)
        enter == state = "up" /\ Above(torso_y, down_thresh)
        state1 == IF enter THEN "down" ELSE state
        angles1 == Cleared(enter, current_rep_angles)
        angles2 == IF state1 = "down" /\ flare > 0 THEN Append(angles1, flare) ELSE angles1
        leave == state1 = "down" /\ Below(torso_y, up_thresh)
        graded == leave /\ angles2 # <<>>
        rec == PushupGrade(angles2, good, bad)
    IN /\ min_y' = mn
       /\ max_y' = mx
       /\ state' = IF leave THEN "up" ELSE state1
       /\ current_rep_angles' = angles2
       /\ rep_details' = IF graded THEN Append(rep_details, rec) ELSE rep_details
       /\ good' = Tally(good, graded, rec.status, "good")
       /\ bad' = Tally(bad, graded, rec.status, "bad")
       /\ opens' = IF enter THEN opens + 1 ELSE opens
       /\ closes' = IF leave THEN closes + 1 ELSE closes
       /\ outcome' = "processed"
       /\ UNCHANGED <<upper_arm_angles, chin_above_bar, lockout_reached>>

\* the guard and the bookkeeping of an iteration that runs the pose model on
\* its frame, which returns r
SampledFrame(fn, r) ==
    /\ pc = "loop"
    /\ UNCHANGED <<other, web>>
    /\ analyzer = fn
    /\ video = "ok"
    /\ frame_idx < MaxFrames
    /\ Sampled(frame_idx + 1)
    /\ frame_idx' = frame_idx + 1
    /\ results' = r
    /\ UNCHANGED <<pc, exercise_name, analyzer, video, stream_end, model, cap, result,
                   load_suggestion>>

\* the two `continue`s after the pose model has run: nobody detected, or the
\* joints the analyzer needs are missing
Skip(person) ==
    /\ outcome' = IF person = NoPerson THEN "no_person" ELSE "no_joints"
    /\ UNCHANGED <<locals, opens, closes>>

\* one iteration of _analyze_pushups' loop on a sampled frame
PushupsFrame(r) ==
    /\ SampledFrame("_analyze_pushups", r)
    /\ LET person == _extract_main_person(r)
           y_coords == PresentYs(PushupKpts(person))
       IN IF person = NoPerson \/ y_coords = <<>>
          THEN Skip(person)
          ELSE PushupsMachine(Mean(y_coords), PushupFlare(person))

(* ------------------------------ pull-ups ------------------------------- *)

PullupFrames ==
    {NoPersonFrame}
    \* a face-only array: the nose is in it, the shoulders are past its end
    \cup { <<Det(9, Kpts(ShortLen, (NOSE :> <<1, y>>)), NoAng, 0)>> : y \in Ys }
    \* a nose with a zero X
    \cup { <<Det(9, Kpts(KptLen, (NOSE :> <<0, 1>>) @@ (L_SHOULDER :> <<1, 2>>)), NoAng, 0)>> }
    \cup { <<Det(9, Kpts(KptLen, n @@ l @@ r), NoAng, 0)>> :
              n \in {<<>>} \cup {(NOSE :> <<1, y>>) : y \in Ys},
              l \in {<<>>, (L_SHOULDER :> <<1, 2>>)},
              r \in {<<>>, (R_SHOULDER :> <<1, MaxY>>)} }

\* PullupShoulderY with a plausible bug: the right shoulder is left out
PullupShoulderYLeft(person) ==
    LET sh_ys == PresentYs(<< _get_keypoint(person.kpts, L_SHOULDER) >>)
    IN IF sh_ys # <<>> THEN Mean(sh_ys) ELSE None

\* lines 224-229: mean Y of the visible shoulders, times Scale, or None
PullupShoulderY(person) ==
    LET sh_ys == PresentYs(<< _get_keypoint(person.kpts, L_SHOULDER),
                             _get_keypoint(person.kpts, R_SHOULDER) >>)
    IN IF sh_ys # <<>> THEN Mean(sh_ys) ELSE None

\* lines 248-254: the grade of a closed window
PullupGrade(chin, g, b) ==
    IF chin
    THEN Rep(RepNum(g, b), "good", 1, <<"Chin cleared the bar - full range of motion">>)
    ELSE Rep(RepNum(g, b), "bad", 0, <<"Chin did not clear bar height">>)

\* lines 231-254: calibration, state machine and grading on one valid frame
PullupsMachine(head_y, shoulder_y) ==
    LET mn == NewMin(min_y, head_y)
        mx == NewMax(max_y, head_y)
        head_range == mx - mn
        top_thresh == Thresh(mn, head_range, 30, mn)
        bottom_thresh == Thresh(mn, head_range, 70, mx)
        enter == state = "down" /\ Below(head_y, top_thresh)
        state1 == IF enter THEN "up" ELSE state
        chin1 == ResetFlag(enter, chin_above_bar)
        chin2 == IF state1 = "up" /\ shoulder_y # None /\ head_y < shoulder_y
                 THEN TRUE ELSE chin1
        leave == state1 = "up" /\ Above(head_y, bottom_thresh)
        rec == PullupGrade(chin2, good, bad)
    IN /\ min_y' = mn
       /\ max_y' = mx
       /\ state' = IF leave THEN "down" ELSE state1
       /\ chin_above_bar' = chin2
       /\ rep_details' = IF leave THEN Append(rep_details, rec) ELSE rep_details
       /\ good' = Tally(good, leave, rec.status, "good")
       /\ bad' = Tally(bad, leave, rec.status, "bad")
       /\ opens' = IF enter THEN opens + 1 ELSE opens
       /\ closes' = IF leave THEN closes + 1 ELSE closes
       /\ outcome' = "processed"
       /\ UNCHANGED <<current_rep_angles, upper_arm_angles, lockout_reached>>

\* one iteration of _analyze_pullups' loop on a sampled frame
PullupsFrame(r) ==
    /\ SampledFrame("_analyze_pullups", r)
    /\ LET person == _extract_main_person(r)
           nose == _get_keypoint(person.kpts, NOSE)
       IN IF person = NoPerson \/ nose = NoKp
          THEN Skip(person)
          ELSE PullupsMachine(Scale * nose[2], PullupShoulderY(person))

(* ----------------------------- bench press ----------------------------- *)

\* elbow angles a bench-press video shows: too deep, in range, locked out
BenchAngles == {60, 95, 170}

ArmJoints(sh, el, wr, y) == (sh :> <<1, 1>>) @@ (el :> <<1, 1>>) @@ (wr :> <<1, y>>)

BenchFrames ==
    {NoPersonFrame}
    \* a left arm without its elbow, a right arm without its wrist
    \cup { <<Det(9, Kpts(KptLen, (L_SHOULDER :> <<1, 1>>) @@ (L_WRIST :> <<1, 1>>)
                                  @@ (R_SHOULDER :> <<1, 1>>) @@ (R_ELBOW :> <<1, 1>>)),
                 Ang(0, 0, 95, 95), 0)>> }
    \* the left arm
    \cup { <<Det(9, Kpts(KptLen, ArmJoints(L_SHOULDER, L_ELBOW, L_WRIST, y)), Ang(0, 0, a, 0), 0)>> :
              y \in Ys, a \in BenchAngles }
    \* both arms, the right wrist a pixel lower
    \cup { <<Det(9, Kpts(KptLen, ArmJoints(L_SHOULDER, L_ELBOW, L_WRIST, y)
                                  @@ ArmJoints(R_SHOULDER, R_ELBOW, R_WRIST, y + 1)),
                 Ang(0, 0, a[1], a[2]), 0)>> :
              y \in 1..(MaxY - 1), a \in {<<95, 60>>, <<170, 170>>} }

\* lines 294-303 (415-416 in curls): is the arm's shoulder, elbow and wrist all present
ArmOk(person, sh, el, wr) ==
    /\ _get_keypoint(person.kpts, sh) # NoKp
    /\ _get_keypoint(person.kpts, el) # NoKp
    /\ _get_keypoint(person.kpts, wr) # NoKp

\* lines 308-323: the elbow angles of the arms that are all present
ElbowAngles(person) ==
    (IF ArmOk(person, L_SHOULDER, L_ELBOW, L_WRIST)
     THEN <<calculate_angle(person, L_SHOULDER, L_ELBOW, L_WRIST)>> ELSE <<>>)
    \o (IF ArmOk(person, R_SHOULDER, R_ELBOW, R_WRIST)
        THEN <<calculate_angle(person, R_SHOULDER, R_ELBOW, R_WRIST)>> ELSE <<>>)

\* lines 310-324: the wrist Ys of the arms that are all present
WristYs(person) ==
    (IF ArmOk(person, L_SHOULDER, L_ELBOW, L_WRIST)
     THEN <<_get_keypoint(person.kpts, L_WRIST)[2]>> ELSE <<>>)
    \o (IF ArmOk(person, R_SHOULDER, R_ELBOW, R_WRIST)
        THEN <<_get_keypoint(person.kpts, R_WRIST)[2]>> ELSE <<>>)

\* BenchGrade with a plausible bug: `<=` for `<`, a minimum of 70 is too deep
BenchGradeExclusive(angles, lockout, g, b) ==
    LET min_angle == IF angles # <<>> THEN SeqMin(angles) ELSE 0
        metric == Round1(min_angle, Scale)
        issues == (IF min_angle <= 70 * Scale THEN <<"Went too deep">>
                   ELSE IF min_angle > 110 * Scale THEN <<"Insufficient depth">>
                   ELSE <<>>)
                  \o (IF ~lockout THEN <<"Did not fully lock out at the top">> ELSE <<>>)
    IN IF issues # <<>>
       THEN Rep(RepNum(g, b), "bad", metric, issues)
       ELSE Rep(RepNum(g, b), "good", metric, <<"Good depth and full lockout">>)

\* lines 351-367: the grade of a closed window
BenchGrade(angles, lockout, g, b) ==
    LET min_angle == IF angles # <<>> THEN SeqMin(angles) ELSE 0
        metric == Round1(min_angle, Scale)
        issues == (IF min_angle < 70 * Scale THEN <<"Went too deep">>
                   ELSE IF min_angle > 110 * Scale THEN <<"Insufficient depth">>
                   ELSE <<>>)
                  \o (IF ~lockout THEN <<"Did not fully lock out at the top">> ELSE <<>>)
    IN IF issues # <<>>
       THEN Rep(RepNum(g, b), "bad", metric, issues)
       ELSE Rep(RepNum(g, b), "good", metric, <<"Good depth and full lockout">>)

\* lines 331-367: calibration, state machine and grading on one valid frame
BenchMachine(wrist_y, elbow_angle) ==
    LET mn == NewMin(min_y, wrist_y)
        mx == NewMax(max_y, wrist_y)
        span == mx - mn
        down_thresh == Thresh(mn, span, 60, mn)
        up_thresh == Thresh(mn, span, 30, mx)
        enter == state = "up" /\ Above(wrist_y, down_thresh)
        state1 == IF enter THEN "down" ELSE state
        angles1 == Cleared(enter, current_rep_angles)
        lockout1 == ResetFlag(enter, lockout_reached)
        angles2 == IF state1 = "down" THEN Append(angles1, elbow_angle) ELSE angles1
        leave == state1 = "down" /\ Below(wrist_y, up_thresh)
        lockout2 == IF leave THEN elbow_angle > 160 * Scale ELSE lockout1
        rec == BenchGrade(angles2, lockout2, good, bad)
    IN /\ min_y' = mn
       /\ max_y' = mx
       /\ state' = IF leave THEN "up" ELSE state1
       /\ current_rep_angles' = angles2
       /\ lockout_reached' = lockout2
       /\ rep_details' = IF leave THEN Append(rep_details, rec) ELSE rep_details
       /\ good' = Tally(good, leave, rec.status, "good")
       /\ bad' = Tally(bad, leave, rec.status, "bad")
       /\ opens' = IF enter THEN opens + 1 ELSE opens
       /\ closes' = IF leave THEN closes + 1 ELSE closes
       /\ outcome' = "processed"
       /\ UNCHANGED <<upper_arm_angles, chin_above_bar>>

\* one iteration of _analyze_bench_press' loop on a sampled frame
BenchFrame(r) ==
    /\ SampledFrame("_analyze_bench_press", r)
    /\ LET person == _extract_main_person(r)
           valid_angles == ElbowAngles(person)
           valid_wrists == WristYs(person)
       IN IF \/ person = NoPerson
             \/ (~ArmOk(person, L_SHOULDER, L_ELBOW, L_WRIST)
                 /\ ~ArmOk(person, R_SHOULDER, R_ELBOW, R_WRIST))
             \/ valid_angles = <<>> \/ valid_wrists = <<>>
          THEN Skip(person)
          ELSE BenchMachine(Mean(valid_wrists), Mean(valid_angles))

(* -------------------------------- curls -------------------------------- *)

\* elbow angles a curl video shows: contracted, half way, extended
CurlAngles == {30, 100, 170}
\* upper-arm angles (hip-shoulder-elbow) a curl video shows
UpperArmAngles == {10, 40}

CurlFrames ==
    {NoPersonFrame}
    \* a left arm without its wrist, with a hip
    \cup { <<Det(9, Kpts(KptLen, (L_SHOULDER :> <<1, 1>>) @@ (L_ELBOW :> <<1, 1>>)
                                  @@ (L_HIP :> <<1, 1>>)), Ang(10, 0, 100, 0), 0)>> }
    \* the left arm, no hip
    \cup { <<Det(9, Kpts(KptLen, ArmJoints(L_SHOULDER, L_ELBOW, L_WRIST, 1)), Ang(0, 0, a, 0), 0)>> :
              a \in CurlAngles }
    \* the left arm and the left hip
    \cup { <<Det(9, Kpts(KptLen, ArmJoints(L_SHOULDER, L_ELBOW, L_WRIST, 1) @@ (L_HIP :> <<1, 1>>)),
                 Ang(u, 0, a, 0), 0)>> : a \in CurlAngles, u \in UpperArmAngles }
    \* both arms, the right hip only
    \cup { <<Det(9, Kpts(KptLen, ArmJoints(L_SHOULDER, L_ELBOW, L_WRIST, 1)
                                  @@ ArmJoints(R_SHOULDER, R_ELBOW, R_WRIST, 1)
                                  @@ (R_HIP :> <<1, 1>>)),
                 Ang(0, 40, a[1], a[2]), 0)>> : a \in {<<30, 100>>, <<170, 170>>} }

\* lines 421-430: the upper-arm angles of the arms that are all present and have a hip
UaAngles(person) ==
    (IF ArmOk(person, L_SHOULDER, L_ELBOW, L_WRIST) /\ _get_keypoint(person.kpts, L_HIP) # NoKp
     THEN <<calculate_angle(person, L_HIP, L_SHOULDER, L_ELBOW)>> ELSE <<>>)
    \o (IF ArmOk(person, R_SHOULDER, R_ELBOW, R_WRIST) /\ _get_keypoint(person.kpts, R_HIP) # NoKp
        THEN <<calculate_angle(person, R_HIP, R_SHOULDER, R_ELBOW)>> ELSE <<>>)

\* float(np.std(xs)) > bound, for a non-empty list xs kept times Scale:
\* the population variance n * sum(x^2) - sum(x)^2 over n^2 against bound^2
StdAbove(xs, bound) ==
    LET n == Len(xs)
        sq == [i \in DOMAIN xs |-> xs[i] * xs[i]]
    IN n * SumSeq(sq) - SumSeq(xs) * SumSeq(xs) > bound * bound * Scale * Scale * n * n

\* CurlGrade with a plausible bug: `<=` for `<`, a range of motion of 80 is limited
CurlGradeExclusive(angles, ua, g, b) ==
    LET rep_min == IF angles # <<>> THEN SeqMin(angles) ELSE 90 * Scale
        rep_max == IF angles # <<>> THEN SeqMax(angles) ELSE 90 * Scale
        rom == rep_max - rep_min
        metric == Round1(rom, Scale)
        issues == (IF rom <= 80 * Scale THEN <<"Limited range of motion">> ELSE <<>>)
                  \o (IF ua # <<>> /\ StdAbove(ua, 12)
                      THEN <<"Upper arm is swinging">> ELSE <<>>)
    IN IF issues # <<>>
       THEN Rep(RepNum(g, b), "bad", metric, issues)
       ELSE Rep(RepNum(g, b), "good", metric, <<"Good range of motion and stable upper arm">>)

\* CurlGrade with a plausible bug: the feedback of a bad rep is its first clause
CurlGradeFirstClause(angles, ua, g, b) ==
    LET rep_min == IF angles # <<>> THEN SeqMin(angles) ELSE 90 * Scale
        rep_max == IF angles # <<>> THEN SeqMax(angles) ELSE 90 * Scale
        rom == rep_max - rep_min
        metric == Round1(rom, Scale)
        issues == (IF rom < 80 * Scale THEN <<"Limited range of motion">> ELSE <<>>)
                  \o (IF ua # <<>> /\ StdAbove(ua, 12)
                      THEN <<"Upper arm is swinging">> ELSE <<>>)
    IN IF issues # <<>>
       THEN Rep(RepNum(g, b), "bad", metric, <<Head(issues)>>)
       ELSE Rep(RepNum(g, b), "good", metric, <<"Good range of motion and stable upper arm">>)

\* CurlGrade with a plausible bug: a window without an upper-arm sample fails
\* the swing check
CurlGradeNeedsUpperArm(angles, ua, g, b) ==
    LET rep_min == IF angles # <<>> THEN SeqMin(angles) ELSE 90 * Scale
        rep_max == IF angles # <<>> THEN SeqMax(angles) ELSE 90 * Scale
        rom == rep_max - rep_min
        metric == Round1(rom, Scale)
        issues == (IF rom < 80 * Scale THEN <<"Limited range of motion">> ELSE <<>>)
                  \o (IF ua = <<>> \/ StdAbove(ua, 12)
                      THEN <<"Upper arm is swinging">> ELSE <<>>)
    IN IF issues # <<>>
       THEN Rep(RepNum(g, b), "bad", metric, issues)
       ELSE Rep(RepNum(g, b), "good", metric, <<"Good range of motion and stable upper arm">>)

\* lines 454-472: the grade of a closed window
CurlGrade(angles, ua, g, b) ==
    LET rep_min == IF angles # <<>> THEN SeqMin(angles) ELSE 90 * Scale
        rep_max == IF angles # <<>> THEN SeqMax(angles) ELSE 90 * Scale
        rom == rep_max - rep_min
        metric == Round1(rom, Scale)
        issues == (IF rom < 80 * Scale THEN <<"Limited range of motion">> ELSE <<>>)
                  \o (IF ua # <<>> /\ StdAbove(ua, 12)
                      THEN <<"Upper arm is swinging">> ELSE <<>>)
    IN IF issues # <<>>
       THEN Rep(RepNum(g, b), "bad", metric, issues)
       ELSE Rep(RepNum(g, b), "good", metric, <<"Good range of motion and stable upper arm">>)

\* CurlsMachine with a plausible bug: the samples are appended after the exit
\* test, so that the frame that closes a window contributes none
CurlsMachineAppendLate(elbow_angle, ua_angle) ==
    LET mn == NewMin(min_y, elbow_angle)
        mx == NewMax(max_y, elbow_angle)
        angle_range == mx - mn
        curl_thresh == Thresh(mn, angle_range, 35, mn)
        extend_thresh == Thresh(mn, angle_range, 65, mx)
        enter == state = "down" /\ Below(elbow_angle, curl_thresh)
        state1 == IF enter THEN "up" ELSE state
        angles1 == Cleared(enter, current_rep_angles)
        ua1 == Cleared(enter, upper_arm_angles)
        leave == state1 = "up" /\ Above(elbow_angle, extend_thresh)
        angles2 == IF state1 = "up" /\ ~leave THEN Append(angles1, elbow_angle) ELSE angles1
        ua2 == IF state1 = "up" /\ ~leave /\ ua_angle # None
               THEN Append(ua1, ua_angle) ELSE ua1
        rec == CurlGrade(angles2, ua2, good, bad)
    IN /\ min_y' = mn
       /\ max_y' = mx
       /\ state' = IF leave THEN "down" ELSE state1
       /\ current_rep_angles' = angles2
       /\ upper_arm_angles' = ua2
       /\ rep_details' = IF leave THEN Append(rep_details, rec) ELSE rep_details
       /\ good' = Tally(good, leave, rec.status, "good")
       /\ bad' = Tally(bad, leave, rec.status, "bad")
       /\ opens' = IF enter THEN opens + 1 ELSE opens
       /\ closes' = IF leave THEN closes + 1 ELSE closes
       /\ outcome' = "processed"
       /\ UNCHANGED <<chin_above_bar, lockout_reached>>

\* lines 435-472: calibration, state machine and grading on one valid frame
CurlsMachine(elbow_angle, ua_angle) ==
    LET mn == NewMin(min_y, elbow_angle)
        mx == NewMax(max_y, elbow_angle)
        angle_range == mx - mn
        curl_thresh == Thresh(mn, angle_range, 35, mn)
        extend_thresh == Thresh(mn, angle_range, 65, mx)
        enter == state = "down" /\ Below(elbow_angle, curl_thresh)
        state1 == IF enter THEN "up" ELSE state
        angles1 == Cleared(enter, current_rep_angles)
        ua1 == Cleared(enter, upper_arm_angles)
        angles2 == IF state1 = "up" THEN Append(angles1, elbow_angle) ELSE angles1
        ua2 == IF state1 = "up" /\ ua_angle # None THEN Append(ua1, ua_angle) ELSE ua1
        leave == state1 = "up" /\ Above(elbow_angle, extend_thresh)
        rec == CurlGrade(angles2, ua2, good, bad)
    IN /\ min_y' = mn
       /\ max_y' = mx
       /\ state' = IF leave THEN "down" ELSE state1
       /\ current_rep_angles' = angles2
       /\ upper_arm_angles' = ua2
       /\ rep_details' = IF leave THEN Append(rep_details, rec) ELSE rep_details
       /\ good' = Tally(good, leave, rec.status, "good")
       /\ bad' = Tally(bad, leave, rec.status, "bad")
       /\ opens' = IF enter THEN opens + 1 ELSE opens
       /\ closes' = IF leave THEN closes + 1 ELSE closes
       /\ outcome' = "processed"
       /\ UNCHANGED <<chin_above_bar, lockout_reached>>

\* one iteration of _analyze_curls' loop on a sampled frame
CurlsFrame(r) ==
    /\ SampledFrame("_analyze_curls", r)
    /\ LET person == _extract_main_person(r)
           angles == ElbowAngles(person)
           ua_angles == UaAngles(person)
       IN IF \/ person = NoPerson
             \/ (~ArmOk(person, L_SHOULDER, L_ELBOW, L_WRIST)
                 /\ ~ArmOk(person, R_SHOULDER, R_ELBOW, R_WRIST))
          THEN Skip(person)
          ELSE CurlsMachine(Mean(angles), IF ua_angles # <<>> THEN Mean(ua_angles) ELSE None)

(* ------------------------------- crunches ------------------------------ *)

\* trunk angles a crunch video shows: too little lift, in range, a sit-up
TrunkAngles == {10, 40, 60}
\* the largest vertical nose-to-shoulder distance that is not a strained neck
NeckLimit == 60

CrunchFrames ==
    {NoPersonFrame}
    \* a shoulder and no hip
    \cup { <<Det(9, Kpts(KptLen, (L_SHOULDER :> <<1, y>>)), NoAng, 40)>> : y \in Ys }
    \* a hip and no shoulder
    \cup { <<Det(9, Kpts(KptLen, (L_HIP :> <<1, 1>>) @@ (NOSE :> <<1, 1>>)), NoAng, 40)>> }
    \* the left shoulder and hip; no nose, or a nose far from the shoulder
    \cup { <<Det(9, Kpts(KptLen, (L_SHOULDER :> <<1, y>>) @@ (L_HIP :> <<1, MaxY>>) @@ n), NoAng, t)>> :
              y \in Ys, t \in TrunkAngles, n \in {<<>>, (NOSE :> <<1, MaxY + NeckLimit + 1>>)} }
    \* both shoulders, a nose near them
    \cup { <<Det(9, Kpts(KptLen, (L_SHOULDER :> <<1, y>>) @@ (R_SHOULDER :> <<1, y + 1>>)
                                  @@ (R_HIP :> <<1, MaxY>>) @@ (NOSE :> <<1, 1>>)), NoAng, 40)>> :
              y \in 1..(MaxY - 1) }

ShoulderPts(person) ==
    << _get_keypoint(person.kpts, L_SHOULDER), _get_keypoint(person.kpts, R_SHOULDER) >>

HipPts(person) ==
    << _get_keypoint(person.kpts, L_HIP), _get_keypoint(person.kpts, R_HIP) >>

Abs(x) == IF x < 0 THEN -x ELSE x

\* CrunchGrade with a plausible bug: `>=` for `>`, a lift of 55 is over-flexion
CrunchGradeExclusive(lifts, nose_y, shoulder_y, g, b) ==
    LET max_lift == IF lifts # <<>> THEN SeqMax(lifts) ELSE 0
        metric == Round1(max_lift, Scale)
        issues == (IF max_lift < 20 * Scale THEN <<"Insufficient lift">>
                   ELSE IF max_lift >= 55 * Scale THEN <<"Over-flexion">>
                   ELSE <<>>)
                  \o (IF nose_y # None /\ Abs(Scale * nose_y - shoulder_y) > NeckLimit * Scale
                      THEN <<"Neck appears strained">> ELSE <<>>)
    IN IF issues # <<>>
       THEN Rep(RepNum(g, b), "bad", metric, issues)
       ELSE Rep(RepNum(g, b), "good", metric, <<"Good crunch form - proper lift and neutral neck">>)

\* lines 547-567: the grade of a closed window of trunk angles (times Scale);
\* nose_y is None without a nose
CrunchGrade(lifts, nose_y, shoulder_y, g, b) ==
    LET max_lift == IF lifts # <<>> THEN SeqMax(lifts) ELSE 0
        metric == Round1(max_lift, Scale)
        issues == (IF max_lift < 20 * Scale THEN <<"Insufficient lift">>
                   ELSE IF max_lift > 55 * Scale THEN <<"Over-flexion">>
                   ELSE <<>>)
                  \o (IF nose_y # None /\ Abs(Scale * nose_y - shoulder_y) > NeckLimit * Scale
                      THEN <<"Neck appears strained">> ELSE <<>>)
    IN IF issues # <<>>
       THEN Rep(RepNum(g, b), "bad", metric, issues)
       ELSE Rep(RepNum(g, b), "good", metric, <<"Good crunch form - proper lift and neutral neck">>)

\* lines 531-567: calibration, state machine and grading on one valid frame
CrunchesMachine(shoulder_y, trunk_angle, nose_y) ==
    LET mn == NewMin(min_y, shoulder_y)
        mx == NewMax(max_y, shoulder_y)
        span == mx - mn
        up_thresh == Thresh(mn, span, 35, mn)
        down_thresh == Thresh(mn, span, 65, mx)
        enter == state = "down" /\ Below(shoulder_y, up_thresh)
        state1 == IF enter THEN "up" ELSE state
        lifts1 == Cleared(enter, current_rep_angles)
        lifts2 == IF state1 = "up" THEN Append(lifts1, trunk_angle) ELSE lifts1
        leave == state1 = "up" /\ Above(shoulder_y, down_thresh)
        rec == CrunchGrade(lifts2, nose_y, shoulder_y, good, bad)
    IN /\ min_y' = mn
       /\ max_y' = mx
       /\ state' = IF leave THEN "down" ELSE state1
       /\ current_rep_angles' = lifts2
       /\ rep_details' = IF leave THEN Append(rep_details, rec) ELSE rep_details
       /\ good' = Tally(good, leave, rec.status, "good")
       /\ bad' = Tally(bad, leave, rec.status, "bad")
       /\ opens' = IF enter THEN opens + 1 ELSE opens
       /\ closes' = IF leave THEN closes + 1 ELSE closes
       /\ outcome' = "processed"
       /\ UNCHANGED <<upper_arm_angles, chin_above_bar, lockout_reached>>

\* one iteration of _analyze_crunches' loop on a sampled frame
CrunchesFrame(r) ==
    /\ SampledFrame("_analyze_crunches", r)
    /\ LET person == _extract_main_person(r)
           nose == _get_keypoint(person.kpts, NOSE)
           sh_ys == PresentYs(ShoulderPts(person))
           hip_ys == PresentYs(HipPts(person))
       IN IF person = NoPerson \/ sh_ys = <<>> \/ hip_ys = <<>>
          THEN Skip(person)
          ELSE CrunchesMachine(Mean(sh_ys), Scale * person.trunk,
                               IF nose # NoKp THEN nose[2] ELSE None)

(* --------------------------- load suggestion --------------------------- *)
\* A suggestion is the list of the parts of the returned string: its fixed
\* clauses and the numbers formatted into it.

\* generate_load_suggestion with a plausible bug: no test for total_reps == 0
SuggestionWithoutZeroTest(name, good_reps, total_reps) ==
    IF good_reps = total_reps
    THEN <<"Excellent form on all", total_reps, "Consider increasing weight or reps">>
    ELSE <<"Only", good_reps, total_reps, "Reduce the load significantly">>

\* generate_load_suggestion with a plausible bug: `>` for `>=` in the tests of
\* the ratio
SuggestionStrictTiers(name, good_reps, total_reps) ==
    IF total_reps = 0
    THEN <<"No reps detected">>
    ELSE IF good_reps = total_reps
    THEN <<"Excellent form on all", total_reps, "Consider increasing weight or reps">>
    ELSE IF 4 * good_reps > 3 * total_reps
    THEN <<"Good form on", good_reps, total_reps, "Maintain current load">>
    ELSE IF 2 * good_reps > total_reps
    THEN <<"Form broke down on", total_reps - good_reps, "Consider reducing weight by 5-10%">>
    ELSE <<"Only", good_reps, total_reps, "Reduce the load significantly">>

\* generate_load_suggestion(exercise_name, good_reps, total_reps); ratio =
\* good_reps / total_reps is compared as a fraction: ratio >= 0.75 is
\* 4 * good_reps >= 3 * total_reps, ratio >= 0.5 is 2 * good_reps >= total_reps
generate_load_suggestion(name, good_reps, total_reps) ==
    IF total_reps = 0
    THEN <<"No reps detected">>
    ELSE IF good_reps = total_reps
    THEN <<"Excellent form on all", total_reps, "Consider increasing weight or reps">>
    ELSE IF 4 * good_reps >= 3 * total_reps
    THEN <<"Good form on", good_reps, total_reps, "Maintain current load">>
    ELSE IF 2 * good_reps >= total_reps
    THEN <<"Form broke down on", total_reps - good_reps, "Consider reducing weight by 5-10%">>
    ELSE <<"Only", good_reps, total_reps, "Reduce the load significantly">>

\* analyze_form after analyze_video has returned: the load suggestion is
\* computed from the counts of the result
LoadSuggestion ==
    /\ pc = "done"
    /\ UNCHANGED <<fed, other, proto>>
    /\ load_suggestion' =
          generate_load_suggestion(exercise_name, result[1].good_reps, result[1].total_reps)
    /\ pc' = "suggested"
    /\ UNCHANGED <<exercise_name, analyzer, video, stream_end, model, cap, frame_idx, results,
                   locals, result, history>>

(* --------------------------- specification ----------------------------- *)

Next ==
    \/ \E name \in ExerciseNames, file \in Videos : analyze_video(name, file) /\ UNCHANGED <<proto, web>>
    \/ StrideSkip
    \/ \E r \in PushupFrames : PushupsFrame(r) /\ UNCHANGED <<fed, proto>>
    \/ \E r \in PullupFrames : PullupsFrame(r) /\ UNCHANGED <<fed, proto>>
    \/ \E r \in BenchFrames : BenchFrame(r) /\ UNCHANGED <<fed, proto>>
    \/ \E r \in CurlFrames : CurlsFrame(r) /\ UNCHANGED <<fed, proto>>
    \/ \E r \in CrunchFrames : CrunchesFrame(r) /\ UNCHANGED <<fed, proto>>
    \/ DetectorRaises
    \/ \E cause \in {"exhausted", "open_error", "decode_error"} : EndOfStream(cause)
    \/ LoadSuggestion /\ UNCHANGED web

Spec == Init /\ [][Next]_vars

(* ------------- the synthetic push-up signal: a triangle wave ----------- *)
\* The calibrator, state machine and grader of _analyze_pushups fed a primary
\* signal directly: sample i is SawY(i), which starts at 0, climbs to SawTop in
\* steps of 1 and comes back, one full cycle every 2 * SawTop samples.  Every
\* sample carries a valid flare.  Here frame_idx counts the samples fed.

SawTop == 100

SawY(i) ==
    LET p == i % (2 * SawTop)
    IN IF p <= SawTop THEN p ELSE 2 * SawTop - p

\* the run stands at the end of a full cycle, the k-th
AtCycleEnd(k) == frame_idx = 2 * SawTop * k + 1

SawInit ==
    /\ pc = "loop"
    /\ exercise_name = KeyPushups
    /\ analyzer = "_analyze_pushups"
    /\ video = "ok"
    /\ stream_end = "none"
    /\ model = "loaded"
    /\ cap = "held"
    /\ frame_idx = 0
    /\ results = NoResults
    /\ state = InitialState("_analyze_pushups")
    /\ min_y = None
    /\ max_y = None
    /\ current_rep_angles = <<>>
    /\ upper_arm_angles = <<>>
    /\ chin_above_bar = FALSE
    /\ lockout_reached = FALSE
    /\ rep_details = <<>>
    /\ good = 0
    /\ bad = 0
    /\ result = <<>>
    /\ load_suggestion = <<>>
    /\ outcome = "none"
    /\ opens = 0
    /\ closes = 0
    /\ fed = <<>>
    /\ other = Idle
    /\ proto = ProtoIdle
    /\ WebIdle

\* the flare of a sample: free at the turning points and half way, tucked elsewhere
SawFlares(y) == IF y % (SawTop \div 2) = 0 THEN {74, 76} ELSE {74}

SawSample ==
    /\ pc = "loop"
    /\ UNCHANGED <<fed, other, proto, web>>
    /\ frame_idx < 2 * SawTop * MaxCycles + 1
    /\ frame_idx' = frame_idx + 1
    /\ \E a \in SawFlares(SawY(frame_idx)) :
          PushupsMachine(Scale * SawY(frame_idx), Scale * a)
    /\ UNCHANGED <<pc, exercise_name, analyzer, video, stream_end, model, cap, results, result,
                   load_suggestion>>

\* the stream ends after a whole number of cycles, two at least
SawEnd ==
    /\ \E k \in 2..MaxCycles : AtCycleEnd(k)
    /\ EndOfStream("exhausted")

SawNext == SawSample \/ SawEnd

SpecSaw == SawInit /\ [][SawNext]_vars

(* ------------- rep windows of chosen samples: the graders -------------- *)
\* The calibrator, state machine and grader of an analyzer fed their signals
\* directly.  In push-ups and bench press the primary signal of a frame is at
\* the rest position GradeRest or at the active one GradeTop, in curls it is
\* the elbow angle, in crunches the Y of the shoulders at GradeRest or GradeTop;
\* the secondary signal is any of the angles below (degrees, some with a half or a
\* quarter: a mean of float angles takes any value).
\* Here frame_idx counts the frames fed.

\* frames fed at most
MaxWindow == 5
GradeRest == 1
GradeTop == 10

\* flare samples: the spec's two examples, and values at and around the threshold
GradeFlares ==
    {Scale * a : a \in {60, 61, 62, 80, 81, 82, 75, 76}} \cup {(Scale * 151) \div 2}

\* elbow angles: values at and around 70, 110 and 160, and the spec's examples
GradeElbows ==
    {Scale * a : a \in {60, 70, 95, 110, 150, 160, 170}}
    \cup {(Scale * 139) \div 2, (Scale * 221) \div 2, (Scale * 321) \div 2, (Scale * 381) \div 4}

GradeInit ==
    /\ pc = "loop"
    /\ analyzer \in {"_analyze_pushups", "_analyze_bench_press", "_analyze_curls",
                     "_analyze_crunches"}
    /\ exercise_name = CHOOSE key \in DOMAIN ANALYZERS : ANALYZERS[key] = analyzer
    /\ video = "ok"
    /\ stream_end = "none"
    /\ model = "loaded"
    /\ cap = "held"
    /\ frame_idx = 0
    /\ results = NoResults
    /\ state = InitialState(analyzer)
    /\ min_y = None
    /\ max_y = None
    /\ current_rep_angles = <<>>
    /\ upper_arm_angles = <<>>
    /\ chin_above_bar = FALSE
    /\ lockout_reached = FALSE
    /\ rep_details = <<>>
    /\ good = 0
    /\ bad = 0
    /\ result = <<>>
    /\ load_suggestion = <<>>
    /\ outcome = "none"
    /\ opens = 0
    /\ closes = 0
    /\ fed = <<>>
    /\ other = Idle
    /\ proto = ProtoIdle
    /\ WebIdle

\* the bookkeeping of a fed frame
GradeFrame(fn) ==
    /\ pc = "loop"
    /\ UNCHANGED <<fed, other, proto, web>>
    /\ analyzer = fn
    /\ frame_idx < MaxWindow
    /\ frame_idx' = frame_idx + 1
    /\ UNCHANGED <<pc, exercise_name, analyzer, video, stream_end, model, cap, results, result,
                   load_suggestion>>

GradePushups ==
    /\ GradeFrame("_analyze_pushups")
    /\ \E y \in {GradeRest, GradeTop}, a \in GradeFlares : PushupsMachine(Scale * y, a)

GradeBench ==
    /\ GradeFrame("_analyze_bench_press")
    /\ \E y \in {GradeRest, GradeTop}, a \in GradeElbows : BenchMachine(Scale * y, a)

\* elbow angles of a curl: extended, and three contracted ones that make the
\* range of motion 80, 79.5 and 80.25
GradeCurlElbows ==
    {Scale * 170, Scale * 90, (Scale * 181) \div 2, (Scale * 359) \div 4}

\* upper-arm angles of a curl: none (no hip visible), and values that make the
\* standard deviation of two samples 12 and 12.5
GradeUpperArms == {None, Scale * 10, Scale * 34, Scale * 35}

GradeCurls ==
    /\ GradeFrame("_analyze_curls")
    /\ \E e \in GradeCurlElbows, u \in GradeUpperArms : CurlsMachine(e, u)

\* trunk angles of a crunch: 19.5, 20, 40.25, 55 and 55.5
GradeTrunks ==
    {(Scale * 39) \div 2, Scale * 20, (Scale * 161) \div 4, Scale * 55, (Scale * 111) \div 2}

\* Y of the nose on a frame of a crunch: none, and NeckLimit and one more than
\* NeckLimit away from the shoulders of a closing frame
GradeNoses == {None, GradeTop + NeckLimit, GradeTop + NeckLimit + 1}

GradeCrunches ==
    /\ GradeFrame("_analyze_crunches")
    /\ \E y \in {GradeRest, GradeTop}, t \in GradeTrunks, n \in GradeNoses :
          CrunchesMachine(Scale * y, t, n)

GradeEnd == EndOfStream("exhausted")

GradeNext == GradePushups \/ GradeBench \/ GradeCurls \/ GradeCrunches \/ GradeEnd

SpecGrade == GradeInit /\ [][GradeNext]_vars

(* ------------- the load suggestion of any returned result -------------- *)
\* analyze_form at the return of analyze_video, for every result with up to
\* MaxReps reps: the analyzer's locals are gone, the result holds the counts
\* and one record per rep, the good reps first.

MaxReps == 6

\* the record of rep i of a result of analyzer fn with g good reps
SuggestRep(fn, i, g) ==
    LET ok == i <= g
        gs == IF ok THEN i - 1 ELSE g
        bs == IF ok THEN 0 ELSE i - 1 - g
    IN CASE fn = "_analyze_pushups" ->
              PushupGrade(IF ok THEN <<Scale * 60>> ELSE <<Scale * 80>>, gs, bs)
         [] fn = "_analyze_pullups" -> PullupGrade(ok, gs, bs)
         [] fn = "_analyze_bench_press" -> BenchGrade(<<Scale * 95>>, ok, gs, bs)
         [] fn = "_analyze_curls" ->
              CurlGrade(<<Scale * 90, IF ok THEN Scale * 170 ELSE Scale * 100>>, <<>>, gs, bs)
         [] fn = "_analyze_crunches" ->
              CrunchGrade(IF ok THEN <<Scale * 40>> ELSE <<Scale * 10>>, None,
                          Scale * GradeTop, gs, bs)

SuggestInit ==
    /\ pc = "done"
    /\ exercise_name \in {name \in ExerciseNames : AnalyzersGet(lower(name)) # NoAnalyzer}
    /\ analyzer = AnalyzersGet(lower(exercise_name))
    /\ video = "ok"
    /\ stream_end = "exhausted"
    /\ model = "loaded"
    /\ cap = "released"
    /\ frame_idx = 0
    /\ results = NoResults
    /\ state = "none"
    /\ min_y = None
    /\ max_y = None
    /\ current_rep_angles = <<>>
    /\ upper_arm_angles = <<>>
    /\ chin_above_bar = FALSE
    /\ lockout_reached = FALSE
    /\ rep_details = <<>>
    /\ good = 0
    /\ bad = 0
    /\ \E g \in 0..MaxReps : \E b \in 0..(MaxReps - g) :
          /\ result = <<Result(g, b, [i \in 1..(g + b) |-> SuggestRep(analyzer, i, g)])>>
          /\ opens = g + b
          /\ closes = g + b
    /\ load_suggestion = <<>>
    /\ outcome = "none"
    /\ fed = <<>>
    /\ other = Idle
    /\ proto = ProtoIdle
    /\ WebIdle

SuggestNext == LoadSuggestion /\ UNCHANGED web

SpecSuggest == SuggestInit /\ [][SuggestNext]_vars

(* --------------- an analyzer as a function of its frames --------------- *)
\* The loop of an analyzer applied to the list of what the pose model returns
\* for the frames it samples, one after the other and nothing in between.

\* the locals of an analyzer after its prologue
Fresh(fn) ==
    [state |-> InitialState(fn), min_y |-> None, max_y |-> None, current_rep_angles |-> <<>>,
     upper_arm_angles |-> <<>>, chin_above_bar |-> FALSE, lockout_reached |-> FALSE,
     rep_details |-> <<>>, good |-> 0, bad |-> 0]

\* lines 118-180: the body of _analyze_pushups' loop on the locals s
PushupsOn(s, r) ==
    LET person == _extract_main_person(r)
        y_coords == PresentYs(PushupKpts(person))
    IN IF person = NoPerson \/ y_coords = <<>> THEN s
       ELSE LET torso_y == Mean(y_coords)
                flare == PushupFlare(person)
                mn == NewMin(s.min_y, torso_y)
                mx == NewMax(s.max_y, torso_y)
                down_thresh == Thresh(mn, mx - mn, 60, mn)
                up_thresh == Thresh(mn, mx - mn, 30, mx)
                enter == s.state = "up" /\ Above(torso_y, down_thresh)
                state1 == IF enter THEN "down" ELSE s.state
                angles1 == Cleared(enter, s.current_rep_angles)
                angles2 == IF state1 = "down" /\ flare > 0 THEN Append(angles1, flare) ELSE angles1
                leave == state1 = "down" /\ Below(torso_y, up_thresh)
                graded == leave /\ angles2 # <<>>
                rec == PushupGrade(angles2, s.good, s.bad)
            IN [s EXCEPT !.min_y = mn, !.max_y = mx,
                         !.state = IF leave THEN "up" ELSE state1,
                         !.current_rep_angles = angles2,
                         !.rep_details = IF graded THEN Append(@, rec) ELSE @,
                         !.good = Tally(@, graded, rec.status, "good"),
                         !.bad = Tally(@, graded, rec.status, "bad")]

\* lines 211-254: the body of _analyze_pullups' loop on the locals s
PullupsOn(s, r) ==
    LET person == _extract_main_person(r)
        nose == _get_keypoint(person.kpts, NOSE)
    IN IF person = NoPerson \/ nose = NoKp THEN s
       ELSE LET head_y == Scale * nose[2]
                shoulder_y == PullupShoulderY(person)
                mn == NewMin(s.min_y, head_y)
                mx == NewMax(s.max_y, head_y)
                top_thresh == Thresh(mn, mx - mn, 30, mn)
                bottom_thresh == Thresh(mn, mx - mn, 70, mx)
                enter == s.state = "down" /\ Below(head_y, top_thresh)
                state1 == IF enter THEN "up" ELSE s.state
                chin1 == ResetFlag(enter, s.chin_above_bar)
                chin2 == IF state1 = "up" /\ shoulder_y # None /\ head_y < shoulder_y
                         THEN TRUE ELSE chin1
                leave == state1 = "up" /\ Above(head_y, bottom_thresh)
                rec == PullupGrade(chin2, s.good, s.bad)
            IN [s EXCEPT !.min_y = mn, !.max_y = mx,
                         !.state = IF leave THEN "down" ELSE state1,
                         !.chin_above_bar = chin2,
                         !.rep_details = IF leave THEN Append(@, rec) ELSE @,
                         !.good = Tally(@, leave, rec.status, "good"),
                         !.bad = Tally(@, leave, rec.status, "bad")]

\* lines 290-367: the body of _analyze_bench_press' loop on the locals s
BenchOn(s, r) ==
    LET person == _extract_main_person(r)
        valid_angles == ElbowAngles(person)
        valid_wrists == WristYs(person)
    IN IF \/ person = NoPerson
          \/ (~ArmOk(person, L_SHOULDER, L_ELBOW, L_WRIST)
              /\ ~ArmOk(person, R_SHOULDER, R_ELBOW, R_WRIST))
          \/ valid_angles = <<>> \/ valid_wrists = <<>>
       THEN s
       ELSE LET wrist_y == Mean(valid_wrists)
                elbow_angle == Mean(valid_angles)
                mn == NewMin(s.min_y, wrist_y)
                mx == NewMax(s.max_y, wrist_y)
                down_thresh == Thresh(mn, mx - mn, 60, mn)
                up_thresh == Thresh(mn, mx - mn, 30, mx)
                enter == s.state = "up" /\ Above(wrist_y, down_thresh)
                state1 == IF enter THEN "down" ELSE s.state
                angles1 == Cleared(enter, s.current_rep_angles)
                lockout1 == ResetFlag(enter, s.lockout_reached)
                angles2 == IF state1 = "down" THEN Append(angles1, elbow_angle) ELSE angles1
                leave == state1 = "down" /\ Below(wrist_y, up_thresh)
                lockout2 == IF leave THEN elbow_angle > 160 * Scale ELSE lockout1
                rec == BenchGrade(angles2, lockout2, s.good, s.bad)
            IN [s EXCEPT !.min_y = mn, !.max_y = mx,
                         !.state = IF leave THEN "up" ELSE state1,
                         !.current_rep_angles = angles2,
                         !.lockout_reached = lockout2,
                         !.rep_details = IF leave THEN Append(@, rec) ELSE @,
                         !.good = Tally(@, leave, rec.status, "good"),
                         !.bad = Tally(@, leave, rec.status, "bad")]

\* lines 403-472: the body of _analyze_curls' loop on the locals s
CurlsOn(s, r) ==
    LET person == _extract_main_person(r)
        angles == ElbowAngles(person)
        ua_angles == UaAngles(person)
    IN IF \/ person = NoPerson
          \/ (~ArmOk(person, L_SHOULDER, L_ELBOW, L_WRIST)
              /\ ~ArmOk(person, R_SHOULDER, R_ELBOW, R_WRIST))
       THEN s
       ELSE LET elbow_angle == Mean(angles)
                ua_angle == IF ua_angles # <<>> THEN Mean(ua_angles) ELSE None
                mn == NewMin(s.min_y, elbow_angle)
                mx == NewMax(s.max_y, elbow_angle)
                curl_thresh == Thresh(mn, mx - mn, 35, mn)
                extend_thresh == Thresh(mn, mx - mn, 65, mx)
                enter == s.state = "down" /\ Below(elbow_angle, curl_thresh)
                state1 == IF enter THEN "up" ELSE s.state
                angles1 == Cleared(enter, s.current_rep_angles)
                ua1 == Cleared(enter, s.upper_arm_angles)
                angles2 == IF state1 = "up" THEN Append(angles1, elbow_angle) ELSE angles1
                ua2 == IF state1 = "up" /\ ua_angle # None THEN Append(ua1, ua_angle) ELSE ua1
                leave == state1 = "up" /\ Above(elbow_angle, extend_thresh)
                rec == CurlGrade(angles2, ua2, s.good, s.bad)
            IN [s EXCEPT !.min_y = mn, !.max_y = mx,
                         !.state = IF leave THEN "down" ELSE state1,
                         !.current_rep_angles = angles2,
                         !.upper_arm_angles = ua2,
                         !.rep_details = IF leave THEN Append(@, rec) ELSE @,
                         !.good = Tally(@, leave, rec.status, "good"),
                         !.bad = Tally(@, leave, rec.status, "bad")]

\* lines 506-567: the body of _analyze_crunches' loop on the locals s
CrunchesOn(s, r) ==
    LET person == _extract_main_person(r)
        nose == _get_keypoint(person.kpts, NOSE)
        sh_ys == PresentYs(ShoulderPts(person))
        hip_ys == PresentYs(HipPts(person))
    IN IF person = NoPerson \/ sh_ys = <<>> \/ hip_ys = <<>> THEN s
       ELSE LET shoulder_y == Mean(sh_ys)
                trunk_angle == Scale * person.trunk
                nose_y == IF nose # NoKp THEN nose[2] ELSE None
                mn == NewMin(s.min_y, shoulder_y)
                mx == NewMax(s.max_y, shoulder_y)
                up_thresh == Thresh(mn, mx - mn, 35, mn)
                down_thresh == Thresh(mn, mx - mn, 65, mx)
                enter == s.state = "down" /\ Below(shoulder_y, up_thresh)
                state1 == IF enter THEN "up" ELSE s.state
                lifts1 == Cleared(enter, s.current_rep_angles)
                lifts2 == IF state1 = "up" THEN Append(lifts1, trunk_angle) ELSE lifts1
                leave == state1 = "up" /\ Above(shoulder_y, down_thresh)
                rec == CrunchGrade(lifts2, nose_y, shoulder_y, s.good, s.bad)
            IN [s EXCEPT !.min_y = mn, !.max_y = mx,
                         !.state = IF leave THEN "down" ELSE state1,
                         !.current_rep_angles = lifts2,
                         !.rep_details = IF leave THEN Append(@, rec) ELSE @,
                         !.good = Tally(@, leave, rec.status, "good"),
                         !.bad = Tally(@, leave, rec.status, "bad")]

\* the body of the loop of analyzer fn
LoopBody(fn, s, r) ==
    CASE fn = "_analyze_pushups" -> PushupsOn(s, r)
      [] fn = "_analyze_pullups" -> PullupsOn(s, r)
      [] fn = "_analyze_bench_press" -> BenchOn(s, r)
      [] fn = "_analyze_curls" -> CurlsOn(s, r)
      [] fn = "_analyze_crunches" -> CrunchesOn(s, r)

RECURSIVE Loop(_, _, _)
Loop(fn, s, frames) ==
    IF frames = <<>> THEN s
    ELSE Loop(fn, LoopBody(fn, s, Head(frames)), Tail(frames))

\* what analyzer fn returns when the pose model runs on exactly these frames
RunAlone(fn, frames) ==
    LET s == Loop(fn, Fresh(fn), frames)
    IN Result(s.good, s.bad, s.rep_details)

(* ------------------- two workers, one running at a time ---------------- *)
\* Two requests are served by two workers, each in its own call of
\* analyze_video on its own video.  The variables above are those of the worker
\* that is running; `other` holds those of the worker that is suspended, and a
\* context switch exchanges the two.  Every frame a run samples is recorded in
\* its `fed`.

\* frames a video has
PairFrames == 9

\* the names the exercises are seeded with
SeededNames ==
    { <<"P", "u", "s", "h", "-", "u", "p", "s">>,
      <<"P", "u", "l", "l", "-", "u", "p", "s">>,
      <<"B", "e", "n", "c", "h", " ", "P", "r", "e", "s", "s">>,
      <<"C", "u", "r", "l", "s">>,
      <<"C", "r", "u", "n", "c", "h", "e", "s">> }

\* what the pose model returns for the frames of the videos: the rest position,
\* and the active position in a form that is good and in one that is not
PairDetections(fn) ==
    CASE fn = "_analyze_pushups" ->
            { <<Det(9, Kpts(KptLen, SideJoints(L_SHOULDER, L_ELBOW, L_HIP, ya[1])),
                    Ang(ya[2], 0, 0, 0), 0)>> : ya \in {<<1, 74>>, <<1, 76>>, <<MaxY, 76>>} }
      [] fn = "_analyze_pullups" ->
            { <<Det(9, Kpts(KptLen, (NOSE :> <<1, MaxY>>) @@ (L_SHOULDER :> <<1, 2>>)), NoAng, 0)>>,
              <<Det(9, Kpts(KptLen, (NOSE :> <<1, 1>>) @@ (L_SHOULDER :> <<1, 2>>)), NoAng, 0)>>,
              <<Det(9, Kpts(KptLen, (NOSE :> <<1, 1>>)), NoAng, 0)>> }
      [] fn = "_analyze_bench_press" ->
            { <<Det(9, Kpts(KptLen, ArmJoints(L_SHOULDER, L_ELBOW, L_WRIST, ya[1])),
                    Ang(0, 0, ya[2], 0), 0)>> : ya \in {<<1, 170>>, <<1, 95>>, <<MaxY, 95>>} }
      [] fn = "_analyze_curls" ->
            { <<Det(9, Kpts(KptLen, ArmJoints(L_SHOULDER, L_ELBOW, L_WRIST, 1) @@ (L_HIP :> <<1, 1>>)),
                    Ang(au[2], 0, au[1], 0), 0)>> : au \in {<<170, 10>>, <<30, 10>>, <<30, 40>>} }
      [] fn = "_analyze_crunches" ->
            { <<Det(9, Kpts(KptLen, (L_SHOULDER :> <<1, yt[1]>>) @@ (L_HIP :> <<1, MaxY>>)),
                    NoAng, yt[2])>> : yt \in {<<MaxY, 10>>, <<1, 10>>, <<1, 40>>} }
      [] OTHER -> {}

\* the variables of the running worker
Me ==
    [pc |-> pc, exercise_name |-> exercise_name, analyzer |-> analyzer, video |-> video,
     stream_end |-> stream_end, model |-> model, cap |-> cap, frame_idx |-> frame_idx,
     results |-> results, state |-> state, min_y |-> min_y, max_y |-> max_y,
     current_rep_angles |-> current_rep_angles, upper_arm_angles |-> upper_arm_angles,
     chin_above_bar |-> chin_above_bar, lockout_reached |-> lockout_reached,
     rep_details |-> rep_details, good |-> good, bad |-> bad, result |-> result,
     load_suggestion |-> load_suggestion, outcome |-> outcome, opens |-> opens,
     closes |-> closes, fed |-> fed]

\* OwnTally with a plausible bug: good and bad are module-level counters, which
\* every call of an analyzer counts in
SharedTally(saved, live) == live

\* `good = bad = 0` makes the tallies locals of the analyzer's call: the worker
\* that resumes finds the values it was suspended with
OwnTally(saved, live) == saved

\* a context switch: the running worker is suspended, the other one resumes
Swap ==
    /\ other' = Me
    /\ pc' = other.pc
    /\ exercise_name' = other.exercise_name
    /\ analyzer' = other.analyzer
    /\ video' = other.video
    /\ stream_end' = other.stream_end
    /\ model' = other.model
    /\ cap' = other.cap
    /\ frame_idx' = other.frame_idx
    /\ results' = other.results
    /\ state' = other.state
    /\ min_y' = other.min_y
    /\ max_y' = other.max_y
    /\ current_rep_angles' = other.current_rep_angles
    /\ upper_arm_angles' = other.upper_arm_angles
    /\ chin_above_bar' = other.chin_above_bar
    /\ lockout_reached' = other.lockout_reached
    /\ rep_details' = other.rep_details
    /\ good' = OwnTally(other.good, good)
    /\ bad' = OwnTally(other.bad, bad)
    /\ result' = other.result
    /\ load_suggestion' = other.load_suggestion
    /\ outcome' = other.outcome
    /\ opens' = other.opens
    /\ closes' = other.closes
    /\ fed' = other.fed
    /\ UNCHANGED <<proto, web>>

PairStart == \E name \in SeededNames : analyze_video(name, "ok") /\ UNCHANGED <<proto, web>>

\* an iteration that drops its frame
PairSkip == frame_idx < PairFrames /\ StrideSkip

\* an iteration that runs the pose model on its frame
PairSample ==
    /\ frame_idx < PairFrames
    /\ \E r \in PairDetections(analyzer) :
          /\ \/ PushupsFrame(r)
             \/ PullupsFrame(r)
             \/ BenchFrame(r)
             \/ CurlsFrame(r)
             \/ CrunchesFrame(r)
          /\ fed' = Append(fed, r)
          /\ UNCHANGED proto

PairEnd == EndOfStream("exhausted")

PairNext == PairStart \/ PairSkip \/ PairSample \/ PairEnd \/ Swap

SpecPair == Init /\ [][PairNext]_vars

(* ------------- one worker that always takes its next step ------------- *)
\* A call of analyze_video on a video of up to PairFrames frames, in a worker
\* that is never stopped: whenever the call has a next statement, it is run.

LiveNext == PairStart \/ PairSkip \/ PairSample \/ PairEnd

SpecLive == Init /\ [][LiveNext]_vars /\ WF_vars(LiveNext)


(* ------------------------------ analyze_form --------------------------- *)
\* One POST to analyze_form: the request is validated, the upload is written
\* to a temp file, analyze_video runs on it (a video of up to PairFrames
\* frames), and the handler answers.

\* the Exercise table: the five seeded rows, and one row added since whose name
\* has no analyzer
ExerciseTable ==
    (1 :> <<"P", "u", "s", "h", "-", "u", "p", "s">>)
    @@ (2 :> <<"P", "u", "l", "l", "-", "u", "p", "s">>)
    @@ (3 :> <<"B", "e", "n", "c", "h", " ", "P", "r", "e", "s", "s">>)
    @@ (4 :> <<"C", "u", "r", "l", "s">>)
    @@ (5 :> <<"C", "r", "u", "n", "c", "h", "e", "s">>)
    @@ (6 :> <<"S", "q", "u", "a", "t", "s">>)

\* the exercise_id of a request: None when the field is missing, 7 is no row's id
ExerciseIds == {None} \cup (1..7)

\* the variables of the call of analyze_video
analysis ==
    <<pc, exercise_name, analyzer, video, stream_end, model, cap, frame_idx, results, locals,
      result, load_suggestion, history, fed, other>>

\* lines 92-116: the two 400s, the 404, the temp file and the writing of the
\* chunks into it (written: no write raised), the call of analyze_video
analyze_form(exercise_id, has_video, written, file) ==
    /\ pc = "idle"
    /\ tmp = "none"
    /\ response = 0
    /\ UNCHANGED <<proto, analyses, paginator, listing>>
    /\ IF exercise_id = None \/ ~has_video
       THEN /\ response' = 400
            /\ UNCHANGED <<tmp, analysis>>
       ELSE IF exercise_id \notin DOMAIN ExerciseTable
       THEN /\ response' = 404
            /\ UNCHANGED <<tmp, analysis>>
       ELSE IF ~written
       THEN /\ tmp' = "deleted"
            /\ response' = 500
            /\ UNCHANGED analysis
       ELSE /\ tmp' = "exists"
            /\ UNCHANGED response
            /\ analyze_video(ExerciseTable[exercise_id], file)

\* FormFailed with a plausible bug: the handler answers without the unlink
FormFailedLeavesFile ==
    /\ pc \in {"ValueError", "raised"}
    /\ tmp = "exists"
    /\ response = 0
    /\ response' = 500
    /\ UNCHANGED <<tmp, analysis, proto, analyses, paginator, listing>>

\* lines 117-124: analyze_video has raised (the ValueError of the lookup, or
\* what the pose model raised): the except clause answers 500 and the finally
\* clause unlinks the temp file
FormFailed ==
    /\ pc \in {"ValueError", "raised"}
    /\ tmp = "exists"
    /\ response = 0
    /\ tmp' = "deleted"
    /\ response' = 500
    /\ UNCHANGED <<analysis, proto, analyses, paginator, listing>>

\* the row FormAnalysis.objects.create inserts (lines 130-139)
FormAnalysisRow(id, url, res, suggestion) ==
    [id |-> id, exercise |-> exercise_name, video_url |-> url,
     total_reps |-> res.total_reps, good_reps |-> res.good_reps, bad_reps |-> res.bad_reps,
     rep_details |-> res.rep_details, load_suggestion |-> suggestion]

\* what _upload_video_to_supabase returned: "" when the upload failed
VideoUrls == {<<>>, <<"url">>}

\* lines 123-142: analyze_video has returned: the finally clause unlinks the
\* temp file, the load suggestion is computed, the row is created, 201
FormSaved ==
    /\ tmp = "exists"
    /\ response = 0
    /\ LoadSuggestion
    /\ tmp' = "deleted"
    /\ \E url \in VideoUrls :
          analyses' = Append(analyses, FormAnalysisRow(Len(analyses) + 1, url, result[1],
                                                       load_suggestion'))
    /\ response' = 201
    /\ UNCHANGED <<paginator, listing>>

\* the loop of the analyzer while the handler waits for analyze_video
FormLoop ==
    /\ tmp = "exists"
    /\ \/ PairSkip
       \/ PairSample
       \/ PairEnd
       \/ frame_idx < PairFrames /\ DetectorRaises
       \/ EndOfStream("open_error")

FormNext ==
    \/ \E exercise_id \in ExerciseIds, has_video \in BOOLEAN, written \in BOOLEAN, file \in Videos :
          analyze_form(exercise_id, has_video, written, file)
    \/ FormLoop
    \/ FormFailed
    \/ FormSaved

SpecForm == Init /\ [][FormNext]_vars


(* ----------------- the Streamlit prototype, side by side --------------- *)
\* formTracking/unified_form_tracker.py: the push-up and the pull-up loop of
\* show_exercise_analysis, run on the video the analyzer is run on.  Both loops
\* read the stream with the header of the analyzers' (cap.read(), break,
\* frame_idx += 1, the test of FRAME_STRIDE = 3), so the two sample the same
\* frames; `proto` holds the prototype's locals, and each sampled frame is one
\* step of both loops.

\* the value of the slider the prototype is run with
flare_threshold == 75

\* get_pt(idx) of get_pose_details_pullup and get_pose_details_pushup
get_pt(person_kpts, idx) ==
    IF /\ idx < Len(person_kpts)
       /\ person_kpts[idx + 1][1] # 0
       /\ person_kpts[idx + 1][2] # 0
    THEN person_kpts[idx + 1]
    ELSE NoKp

\* the detection both get_pose_details_* read: that of the largest confidence,
\* NoPerson where they return None for want of one
ProtoPerson(res) ==
    IF Len(res) = 0 THEN NoPerson ELSE res[ArgMax(res)]

\* get_pose_details_pushup(results): torso_y (times Scale, None when no joint
\* is present or nobody was detected) and the keypoints dict
get_pose_details_pushup(res) ==
    LET person == ProtoPerson(res)
        keypoints == [l_sh |-> get_pt(person.kpts, 5), r_sh |-> get_pt(person.kpts, 6),
                      l_el |-> get_pt(person.kpts, 7), r_el |-> get_pt(person.kpts, 8),
                      l_hip |-> get_pt(person.kpts, 11), r_hip |-> get_pt(person.kpts, 12)]
        y_coords == PresentYs(<<get_pt(person.kpts, 5), get_pt(person.kpts, 6),
                                get_pt(person.kpts, 7), get_pt(person.kpts, 8),
                                get_pt(person.kpts, 11), get_pt(person.kpts, 12)>>)
    IN IF person = NoPerson \/ y_coords = <<>>
       THEN [torso_y |-> None, kpts |-> keypoints, person |-> person]
       ELSE [torso_y |-> Mean(y_coords), kpts |-> keypoints, person |-> person]

\* the prototype's locals before its push-up loop
ProtoPushupsStart == [ProtoIdle EXCEPT !.state = "up"]

\* the body of the prototype's push-up loop after the inference: d is what
\* get_pose_details_pushup returned for the frame
ProtoPushupsOn(p, d) ==
    LET current_y == d.torso_y
        kpts == d.kpts
        mn == Min2(IF p.min_y = None THEN current_y ELSE p.min_y, current_y)
        mx == Max2(IF p.max_y = None THEN current_y ELSE p.max_y, current_y)
        range_span == mx - mn
        \* the thresholds, times 100
        down_thresh == 100 * mn + 60 * range_span
        up_thresh == 100 * mn + 30 * range_span
        left_angle == IF kpts.l_sh # NoKp /\ kpts.l_hip # NoKp /\ kpts.l_el # NoKp
                      THEN calculate_angle(d.person, 11, 5, 7) ELSE 0
        right_angle == IF kpts.r_sh # NoKp /\ kpts.r_hip # NoKp /\ kpts.r_el # NoKp
                       THEN calculate_angle(d.person, 12, 6, 8) ELSE 0
        valid_angles == SelectGt(<<left_angle, right_angle>>, 10)
        current_flare == IF valid_angles # <<>> THEN Mean(valid_angles) ELSE 0
        enter == p.state = "up" /\ 100 * current_y > down_thresh
        state1 == IF enter THEN "down" ELSE p.state
        angles1 == IF enter THEN <<>> ELSE p.current_rep_angles
        angles2 == IF state1 = "down" /\ current_flare > 0
                   THEN Append(angles1, current_flare) ELSE angles1
        leave == state1 = "down" /\ 100 * current_y < up_thresh
        counted == leave /\ angles2 # <<>>
        \* twice np.median(current_rep_angles), against twice the slider
        is_bad == Median2(angles2) > 2 * Scale * flare_threshold
    IN IF current_y = None
       THEN p
       ELSE [p EXCEPT !.min_y = mn,
                      !.max_y = mx,
                      !.state = IF leave THEN "up" ELSE state1,
                      !.current_rep_angles = angles2,
                      !.bad_count = IF counted /\ is_bad THEN @ + 1 ELSE @,
                      !.good_count = IF counted /\ ~is_bad THEN @ + 1 ELSE @]

\* the body of the prototype's push-up loop on a sampled frame, from the
\* inference to the counters
ProtoPushupsFrame(p, res) == ProtoPushupsOn(p, get_pose_details_pushup(res))

\* get_pose_details_pullup(results): head_y and shoulder_y (times Scale, each
\* None when its joints are absent) and whether a keypoints dict is returned
get_pose_details_pullup(res) ==
    LET person == ProtoPerson(res)
        nose == get_pt(person.kpts, 0)
        shoulder_coords == PresentYs(<<get_pt(person.kpts, 5), get_pt(person.kpts, 6)>>)
    IN IF person = NoPerson
       THEN [head_y |-> None, shoulder_y |-> None, kpts |-> FALSE]
       ELSE [head_y |-> IF nose # NoKp THEN Scale * nose[2] ELSE None,
             shoulder_y |-> IF shoulder_coords # <<>> THEN Mean(shoulder_coords) ELSE None,
             kpts |-> TRUE]

\* the prototype's locals before its pull-up loop
ProtoPullupsStart == [ProtoIdle EXCEPT !.state = "down"]

\* the body of the prototype's pull-up loop on a sampled frame
ProtoPullupsFrame(p, res) ==
    LET d == get_pose_details_pullup(res)
        head_y == d.head_y
        shoulder_y == d.shoulder_y
        mn == Min2(IF p.min_y = None THEN head_y ELSE p.min_y, head_y)
        mx == Max2(IF p.min_y = None THEN head_y ELSE p.max_y, head_y)
        head_above_shoulder == head_y < shoulder_y
        head_range == mx - mn
        \* the thresholds, times 100
        top_thresh == IF head_range > 0 THEN 100 * mn + 30 * head_range ELSE 100 * mn
        bottom_thresh == IF head_range > 0 THEN 100 * mn + 70 * head_range ELSE 100 * mx
        enter == p.state = "down" /\ 100 * head_y < top_thresh
        state1 == IF enter THEN "up" ELSE p.state
        chin1 == IF enter THEN FALSE ELSE p.chin_above_bar
        chin2 == IF state1 = "up" /\ head_above_shoulder THEN TRUE ELSE chin1
        leave == state1 = "up" /\ 100 * head_y > bottom_thresh
    IN IF head_y = None \/ shoulder_y = None \/ ~d.kpts
       THEN p
       ELSE [p EXCEPT !.min_y = mn,
                      !.max_y = mx,
                      !.state = IF leave THEN "down" ELSE state1,
                      !.chin_above_bar = chin2,
                      !.total_reps = IF leave THEN @ + 1 ELSE @,
                      !.good_count = IF leave /\ chin2 THEN @ + 1 ELSE @]

\* analyze_video is called with the name of one of the two exercises the
\* prototype has, on a video of up to MaxFrames frames, and the prototype's
\* loop for that exercise is started on the same video
PortNames == {ExerciseTable[1], ExerciseTable[2]}

PortStart ==
    \E name \in PortNames :
       /\ analyze_video(name, "ok")
       /\ proto' = IF name = ExerciseTable[1] THEN ProtoPushupsStart ELSE ProtoPullupsStart
       /\ UNCHANGED web

PortPushups ==
    \E r \in PushupFrames :
       /\ PushupsFrame(r)
       /\ proto' = ProtoPushupsFrame(proto, r)
       /\ UNCHANGED fed

PortPullups ==
    \E r \in PullupFrames :
       /\ PullupsFrame(r)
       /\ proto' = ProtoPullupsFrame(proto, r)
       /\ UNCHANGED fed

PortNext ==
    \/ PortStart
    \/ StrideSkip
    \/ PortPushups
    \/ PortPullups
    \/ EndOfStream("exhausted")

SpecPort == Init /\ [][PortNext]_vars


(* ----------------------------- list_analyses --------------------------- *)
\* common/pagination.py behind list_analyses: one client pages through its
\* analyses, from the first page on with the cursor of the page before, while
\* analyze_form goes on inserting rows for it.

default_page_size == 20
max_page_size == 50

\* rows analyze_form inserts while the client is paging
MaxInserts == 2

\* sizes of the table when the first page is asked for
TableSizes == {0, 1, 3, max_page_size + 2}

Digits == <<"0", "1", "2", "3", "4", "5", "6", "7", "8", "9">>

\* str(n) of an id or a size: its decimal digits
RECURSIVE str(_)
str(n) == IF n < 10 THEN <<Digits[n + 1]>> ELSE Append(str(n \div 10), Digits[(n % 10) + 1])

\* int(s) of a string of decimal digits (what the ORM does with `id__lt=s` too)
RECURSIVE int(_)
int(s) ==
    LET d == CHOOSE k \in 0..9 : Digits[k + 1] = s[Len(s)]
    IN IF Len(s) = 1 THEN d ELSE 10 * int(SubSeq(s, 1, Len(s) - 1)) + d

\* the page_size of a request's query string: none, not a number, or a number
\* from 1 up
PageSizeParams ==
    {<<>>, <<"a", "b", "c">>, str(1), str(2), str(max_page_size), str(max_page_size + 1)}

\* _get_page_size with a plausible bug: the size asked for is not capped
GetPageSizeUncapped(param) ==
    IF param = <<>> THEN default_page_size
    ELSE IF \E i \in DOMAIN param : param[i] \notin Range(Digits) THEN default_page_size
    ELSE int(param)

\* _get_page_size(request): the default when there is no page_size, and when
\* int() raises on it
_get_page_size(param) ==
    IF param = <<>> THEN Min2(default_page_size, max_page_size)
    ELSE IF \E i \in DOMAIN param : param[i] \notin Range(Digits) THEN default_page_size
    ELSE Min2(int(param), max_page_size)

\* queryset.order_by("-id"): the ids of the rows, newest first
ByIdDescending(rows) == [i \in 1..Len(rows) |-> rows[Len(rows) + 1 - i].id]

\* CursorFilter with a plausible bug: id__lte for id__lt
CursorFilterLte(ids, cursor) ==
    IF cursor # NoCursor THEN SelectSeq(ids, LAMBDA id : id <= int(cursor)) ELSE ids

\* `if cursor: queryset = queryset.filter(id__lt=cursor)`
CursorFilter(ids, cursor) ==
    IF cursor # NoCursor THEN SelectSeq(ids, LAMBDA id : id < int(cursor)) ELSE ids

\* paginate_queryset(queryset, request): has_more, next_cursor and the page
paginate_queryset(ids, cursor, param) ==
    LET page_size == _get_page_size(param)
        queryset == CursorFilter(ids, cursor)
        fetched == SubSeq(queryset, 1, Min2(page_size + 1, Len(queryset)))
        has_more == Len(fetched) > page_size
        items == SubSeq(fetched, 1, Min2(page_size, Len(fetched)))
    IN [has_more |-> has_more,
        next_cursor |-> IF items # <<>> /\ has_more THEN str(items[Len(items)]) ELSE NoCursor,
        items |-> items]

\* what list_analyses and the inserts in between leave alone
offline == <<analysis, proto, tmp, response>>

\* list_analyses with the page_size `param`: the first request of the client,
\* without a cursor, or its next one, with the next_cursor it was sent
list_analyses(param) ==
    /\ ~listing.started \/ paginator.has_more
    /\ LET cursor == IF listing.started THEN paginator.next_cursor ELSE NoCursor
           page == paginate_queryset(ByIdDescending(analyses), cursor, param)
       IN /\ paginator' = page
          /\ listing' = [started |-> TRUE,
                         first |-> IF listing.started THEN listing.first
                                   ELSE {analyses[i].id : i \in 1..Len(analyses)},
                         received |-> listing.received \o page.items]
    /\ UNCHANGED <<offline, analyses>>

\* between two requests a row of the client's is created by analyze_form
\* (line 130 of views.py), with the next id
RowInserted ==
    /\ listing.started
    /\ Len(analyses) < Cardinality(listing.first) + MaxInserts
    /\ analyses' = Append(analyses, FormAnalysisRow(Len(analyses) + 1, <<>>, Result(0, 0, <<>>),
                                                    <<"No reps detected">>))
    /\ UNCHANGED <<offline, paginator, listing>>

\* no call of analyze_video is under way, and the table holds the rows of the
\* analyses made so far
PagesInit ==
    /\ pc = "idle"
    /\ exercise_name = <<>>
    /\ analyzer = NoAnalyzer
    /\ video = "none"
    /\ stream_end = "none"
    /\ model = "unloaded"
    /\ cap = "none"
    /\ frame_idx = 0
    /\ results = NoResults
    /\ state = "none"
    /\ min_y = None
    /\ max_y = None
    /\ current_rep_angles = <<>>
    /\ upper_arm_angles = <<>>
    /\ chin_above_bar = FALSE
    /\ lockout_reached = FALSE
    /\ rep_details = <<>>
    /\ good = 0
    /\ bad = 0
    /\ result = <<>>
    /\ load_suggestion = <<>>
    /\ outcome = "none"
    /\ opens = 0
    /\ closes = 0
    /\ fed = <<>>
    /\ other = Idle
    /\ proto = ProtoIdle
    /\ tmp = "none"
    /\ response = 0
    /\ \E n \in TableSizes :
          analyses = [i \in 1..n |-> FormAnalysisRow(i, <<>>, Result(0, 0, <<>>),
                                                     <<"No reps detected">>)]
    /\ paginator = NoPage
    /\ listing = NoListing

PagesNext ==
    \/ \E param \in PageSizeParams : list_analyses(param)
    \/ RowInserted

SpecPages == PagesInit /\ [][PagesNext]_vars

(* ------------------------------- claims -------------------------------- *)

\* C1: in every exercise, at every point of the run, good and bad are
\* non-negative, and in the returned result total_reps = good_reps + bad_reps,
\* each of them non-negative, good_reps and bad_reps being the counts of the run.
C1_TotalIsGoodPlusBad ==
    /\ good >= 0
    /\ bad >= 0
    /\ result # <<>> =>
          /\ result[1].total_reps = result[1].good_reps + result[1].bad_reps
          /\ result[1].good_reps = good
          /\ result[1].bad_reps = bad

\* C1's case: a run that returned with a good rep and a bad one
C1_Witness ==
    /\ pc = "done"
    /\ result[1].good_reps >= 1
    /\ result[1].bad_reps >= 1

\* rep_details holds good + bad records, numbered 1, 2, ... in that order
RepsNumbered ==
    /\ Len(rep_details) = good + bad
    /\ \A i \in DOMAIN rep_details : rep_details[i].rep = i

\* no step changes or removes a record that rep_details already holds
RepsKept ==
    /\ Len(rep_details') >= Len(rep_details)
    /\ \A i \in DOMAIN rep_details : rep_details'[i] = rep_details[i]

\* C2: in every exercise, after any number of frames, rep_details has
\* good + bad records whose 'rep' fields are 1, 2, ..., total_reps in order,
\* and a record once appended is never changed afterwards.
C2_RepDetailsNumbered == [](RepsNumbered) /\ [][RepsKept]_vars

\* C2's case: two records have been appended
C2_Witness == Len(rep_details) >= 2 /\ rep_details[2].rep = 2

\* C3: the triangle wave between 0 and SawTop = 100 in steps of 1, a valid flare
\* on every sample: after k full cycles k reps are counted, and a stream of
\* k >= 2 full cycles returns total_reps = k.
C3_CyclesCounted ==
    /\ \A k \in 1..MaxCycles : AtCycleEnd(k) => good + bad = k
    /\ pc = "done" => \E k \in 2..MaxCycles : AtCycleEnd(k) /\ result[1].total_reps = k

\* C3's case: a stream of three full cycles has returned three reps
C3_Witness == pc = "done" /\ AtCycleEnd(3) /\ result[1].total_reps = 3

\* the rest phase of an analyzer (the one it starts in) and its active phase
RestPhase(fn) == IF fn \in {"_analyze_pushups", "_analyze_bench_press"} THEN "up" ELSE "down"
ActivePhase(fn) == IF fn \in {"_analyze_pushups", "_analyze_bench_press"} THEN "down" ELSE "up"

\* the step goes from the active phase back to the rest phase
ClosingStep == state = ActivePhase(analyzer) /\ state' = RestPhase(analyzer)

\* C4: in every exercise a rep record is appended, and good or bad incremented,
\* only on a step that goes from the active phase back to the rest phase (not
\* on the step that enters the active phase, not on a step that keeps the
\* phase), and a step appends one record at most and counts it once.
C4_GradedOnClosingEdge ==
    [][ (rep_details' # rep_details \/ good' # good \/ bad' # bad) =>
            /\ ClosingStep
            /\ Len(rep_details') = Len(rep_details) + 1
            /\ good' + bad' = good + bad + 1 ]_vars

\* C4's case: a window has been closed and its rep recorded
C4_Witness ==
    /\ pc = "loop"
    /\ outcome = "processed"
    /\ state = RestPhase(analyzer)
    /\ closes >= 1
    /\ Len(rep_details) = closes

\* C5 as claimed: in every exercise, push-ups included, every transition from
\* the active phase back to rest produces exactly one graded record, so that
\* total_reps is the number of closed windows.
C5_Claimed_EveryCloseGraded == good + bad = closes /\ Len(rep_details) = closes

\* a closing step that records exactly one rep, and one that records none
OneRecord ==
    /\ Len(rep_details') = Len(rep_details) + 1
    /\ good' + bad' = good + bad + 1
NoRecord == rep_details' = rep_details /\ good' = good /\ bad' = bad

\* C5 as amended: in pull-ups, bench press, curls and crunches every transition
\* from the active phase back to rest produces exactly one graded record and
\* total_reps is the number of closed windows; in push-ups such a transition
\* produces exactly one record when the window holds a flare sample and none
\* when it holds no sample, so total_reps is at most the number of closed windows.
C5_CloseGradedUnlessEmptyPushup ==
    /\ [](/\ analyzer # "_analyze_pushups" => good + bad = closes
          /\ good + bad <= closes
          /\ Len(rep_details) = good + bad)
    /\ [][ ClosingStep =>
             IF analyzer = "_analyze_pushups" /\ current_rep_angles' = <<>>
             THEN NoRecord ELSE OneRecord ]_vars

\* C5's case: a push-up run that closed two windows, one of them without a
\* flare sample, and returned one rep
C5_Witness ==
    /\ analyzer = "_analyze_pushups"
    /\ pc = "done"
    /\ closes = 2
    /\ result[1].total_reps = 1

\* A joint of the detection the analyzers look at is present: its index lies
\* within the keypoint array and neither coordinate is zero.
Detected(r) == Len(r) > 0
MainKpts(r) == r[ArgMax(r)].kpts
Has(r, idx) ==
    /\ idx < Len(MainKpts(r))
    /\ MainKpts(r)[idx + 1][1] # 0
    /\ MainKpts(r)[idx + 1][2] # 0
HasArm(r, sh, el, wr) == Has(r, sh) /\ Has(r, el) /\ Has(r, wr)

\* the joints of the exercise's primary signal are missing, as the spec lists them
PrimaryMissing(fn, r) ==
    CASE fn = "_analyze_pushups" ->
            \A j \in {L_SHOULDER, R_SHOULDER, L_ELBOW, R_ELBOW, L_HIP, R_HIP} : ~Has(r, j)
      [] fn = "_analyze_pullups" -> ~Has(r, NOSE)
      [] fn \in {"_analyze_bench_press", "_analyze_curls"} ->
            /\ ~HasArm(r, L_SHOULDER, L_ELBOW, L_WRIST)
            /\ ~HasArm(r, R_SHOULDER, R_ELBOW, R_WRIST)
      [] fn = "_analyze_crunches" -> ~Has(r, L_SHOULDER) /\ ~Has(r, R_SHOULDER)
      [] OTHER -> FALSE

\* the step is a loop iteration that ran the pose model, which returned results'
DetectorStep ==
    /\ pc = "loop"
    /\ frame_idx' = frame_idx + 1
    /\ Sampled(frame_idx')
    /\ outcome' # "raised"

\* C6: a sampled frame with no detected person, or whose primary-signal joints
\* are missing, changes nothing: running min/max, phase, window accumulators and
\* flags, good/bad counts and rep_details are the same before and after it, and
\* the loop goes on to the next frame.
C6_SkippedFrameChangesNothing ==
    [][ (DetectorStep /\ (~Detected(results') \/ PrimaryMissing(analyzer, results'))) =>
            /\ UNCHANGED <<state, min_y, max_y, current_rep_angles, upper_arm_angles,
                           chin_above_bar, lockout_reached, rep_details, good, bad>>
            /\ pc' = "loop" ]_vars

\* C6's case: inside an open window that holds samples, a frame without the
\* primary joints has just been skipped
C6_Witness ==
    /\ pc = "loop"
    /\ outcome = "no_joints"
    /\ PrimaryMissing(analyzer, results)
    /\ state = ActivePhase(analyzer)
    /\ current_rep_angles # <<>>

\* the last iteration ran the pose model and found a person
PersonSeen == pc = "loop" /\ outcome \in {"no_joints", "processed"}

\* C7 as claimed: a frame with a detected person is skipped if and only if the
\* joints of the exercise's primary signal are missing (crunches: no shoulder
\* present); with them present it is processed whatever else is missing.
C7_Claimed_SkippedIffPrimaryMissing ==
    PersonSeen => (outcome = "no_joints" <=> PrimaryMissing(analyzer, results))

\* the joints whose absence makes the analyzer skip the frame
RequiredMissing(fn, r) ==
    IF fn = "_analyze_crunches"
    THEN PrimaryMissing(fn, r) \/ (~Has(r, L_HIP) /\ ~Has(r, R_HIP))
    ELSE PrimaryMissing(fn, r)

\* C7 as amended: a frame with a detected person is skipped if and only if the
\* joints of the primary signal are missing (push-ups: none of the six
\* shoulder/elbow/hip joints; pull-ups: no nose; bench press and curls: neither
\* arm complete; crunches: no shoulder) or, in crunches, no hip is present;
\* in every other case it is processed, whatever secondary joints are missing.
C7_SkippedIffRequiredMissing ==
    PersonSeen => (outcome = "no_joints" <=> RequiredMissing(analyzer, results))

\* C7's case: a crunch frame with a shoulder and no hip has been skipped
C7_Witness ==
    /\ PersonSeen
    /\ analyzer = "_analyze_crunches"
    /\ Has(results, L_SHOULDER)
    /\ outcome = "no_joints"

\* C8 as claimed: when the frame source cannot be opened or decoded, the run
\* ends with an error raised to the caller and returns no result.
C8_Claimed_StreamFailureRaises ==
    stream_end \in {"open_error", "decode_error"} => (pc = "raised" /\ result = <<>>)

\* C9 as claimed: a capture an analyzer acquired is released on every exit
\* path: the normal end of the stream, and an exception of the detector.
C9_Claimed_CaptureReleased ==
    (pc \in {"done", "raised"} /\ cap # "none") => cap = "released"

\* C10: analyze_video called with a name that, lower-cased, is not one of the
\* five registered names raises ValueError before the video is opened, the
\* detector loaded or a frame processed.
C10_UnknownNameRaisesFirst ==
    (pc # "idle" /\ lower(exercise_name) \notin {KeyPushups, KeyPullups, KeyBench, KeyCurls, KeyCrunches}) =>
        /\ pc = "ValueError"
        /\ cap = "none"
        /\ model = "unloaded"
        /\ frame_idx = 0
        /\ outcome = "none"
        /\ result = <<>>

\* C10's case: the call with "Squats" has raised ValueError
C10_Witness ==
    /\ pc = "ValueError"
    /\ exercise_name = <<"S", "q", "u", "a", "t", "s">>

\* no valid frame has been processed so far: the calibration was never seeded
NoValidFrame == min_y = None

\* the result of a run without a rep
EmptyResult == [total_reps |-> 0, good_reps |-> 0, bad_reps |-> 0, rep_details |-> <<>>]

\* C11: in every exercise a stream in which every frame is skipped (not sampled,
\* nobody detected, or the required joints missing: the calibration is unseeded
\* exactly as long as no frame was processed) returns total_reps = good_reps =
\* bad_reps = 0 and an empty rep_details, and the load suggestion computed from
\* that result is the 'No reps detected' message.
C11_NoValidFrameNoReps ==
    /\ [][ (outcome' = "processed" => ~NoValidFrame') /\ (~NoValidFrame => ~NoValidFrame') ]_vars
    /\ []( (NoValidFrame /\ pc \in {"done", "suggested"}) => result = <<EmptyResult>> )
    /\ []( (NoValidFrame /\ pc = "suggested") => load_suggestion = <<"No reps detected">> )

\* C11's case: a stream of six frames at least, the sampled ones all skipped,
\* the last of them for its missing joints, has got its suggestion
C11_Witness ==
    /\ pc = "suggested"
    /\ NoValidFrame
    /\ stream_end = "exhausted"
    /\ frame_idx >= 2 * FRAME_STRIDE
    /\ outcome = "no_joints"

\* the step goes from the rest phase into the active phase
OpeningStep == state = RestPhase(analyzer) /\ state' = ActivePhase(analyzer)

\* what the frame r itself contributes to the window accumulator of analyzer fn
\* (one sample; none in pull-ups, none in push-ups without a valid flare)
OwnSamples(fn, r) ==
    LET person == _extract_main_person(r)
    IN CASE fn = "_analyze_pushups" ->
                IF PushupFlare(person) > 0 THEN <<PushupFlare(person)>> ELSE <<>>
         [] fn \in {"_analyze_bench_press", "_analyze_curls"} -> <<Mean(ElbowAngles(person))>>
         [] fn = "_analyze_crunches" -> <<Scale * person.trunk>>
         [] OTHER -> <<>>

\* what the frame r itself contributes to upper_arm_angles (curls only)
OwnUpperArm(fn, r) ==
    LET person == _extract_main_person(r)
    IN IF fn = "_analyze_curls" /\ UaAngles(person) # <<>>
       THEN <<Mean(UaAngles(person))>> ELSE <<>>

\* in the pull-up frame r the nose is above the mean of the visible shoulders
ChinCleared(r) ==
    LET nose_y == MainKpts(r)[NOSE + 1][2]
        left_y == MainKpts(r)[L_SHOULDER + 1][2]
        right_y == MainKpts(r)[R_SHOULDER + 1][2]
    IN IF Has(r, L_SHOULDER) /\ Has(r, R_SHOULDER) THEN 2 * nose_y < left_y + right_y
       ELSE IF Has(r, L_SHOULDER) THEN nose_y < left_y
       ELSE IF Has(r, R_SHOULDER) THEN nose_y < right_y
       ELSE FALSE

\* C12: on the step that enters the active phase the accumulators hold nothing
\* but the opening frame's own sample and the flags nothing but the opening
\* frame's verdict (pull-ups' chin_above_bar) or false (bench's
\* lockout_reached); on every later step of the window the accumulators gain
\* the frame's own sample and nothing else, and chin_above_bar can only be
\* raised by the frame itself: what is graded when the window closes comes from
\* the frames of that window only.
C12_WindowHoldsOwnFramesOnly ==
    [][ /\ OpeningStep =>
              /\ current_rep_angles' = OwnSamples(analyzer, results')
              /\ upper_arm_angles' = OwnUpperArm(analyzer, results')
              /\ analyzer = "_analyze_pullups" => (chin_above_bar' <=> ChinCleared(results'))
              /\ analyzer = "_analyze_bench_press" => ~lockout_reached'
        /\ (state = ActivePhase(analyzer) /\ DetectorStep /\ outcome' = "processed") =>
              /\ current_rep_angles' = current_rep_angles \o OwnSamples(analyzer, results')
              /\ upper_arm_angles' = upper_arm_angles \o OwnUpperArm(analyzer, results')
              /\ analyzer = "_analyze_pullups" =>
                    (chin_above_bar' <=> (chin_above_bar \/ ChinCleared(results'))) ]_vars

\* C12's case: a second window has just been opened, after a first one that
\* left samples (or a raised flag) behind
C12_Witness ==
    /\ pc = "loop"
    /\ outcome = "processed"
    /\ state = ActivePhase(analyzer)
    /\ opens = 2
    /\ closes = 1
    /\ rep_details[1].status = "good"
    /\ Len(current_rep_angles) <= 1

\* the step is a loop iteration that took its frame through the calibration,
\* the state machine and the grader
ValidFrameStep == DetectorStep /\ outcome' = "processed"

\* C13: in every exercise, a valid frame after which the running range is
\* degenerate (max = min: the first valid frame, or a primary signal that has
\* been constant so far) leaves the phase as it was, opens and closes no
\* window and records no rep.
C13_DegenerateRangeNoTransition ==
    [][ (ValidFrameStep /\ max_y' = min_y') =>
            /\ state' = state
            /\ state' = RestPhase(analyzer)
            /\ opens' = opens
            /\ closes' = closes
            /\ rep_details' = rep_details
            /\ good' = good
            /\ bad' = bad ]_vars

\* C13's case: the second sampled frame has been processed and the range is
\* still degenerate
C13_Witness ==
    /\ pc = "loop"
    /\ outcome = "processed"
    /\ frame_idx = 2 * FRAME_STRIDE
    /\ min_y # None
    /\ max_y = min_y

\* the primary signal analyzer fn reads from the frame r (times Scale)
Primary(fn, r) ==
    LET person == _extract_main_person(r)
    IN CASE fn = "_analyze_pushups" -> Mean(PresentYs(PushupKpts(person)))
         [] fn = "_analyze_pullups" -> Scale * _get_keypoint(person.kpts, NOSE)[2]
         [] fn = "_analyze_bench_press" -> Mean(WristYs(person))
         [] fn = "_analyze_curls" -> Mean(ElbowAngles(person))
         [] fn = "_analyze_crunches" -> Mean(PresentYs(ShoulderPts(person)))

\* the running bounds are both unset or both set, and then min <= max
BoundsOrdered ==
    /\ min_y = None <=> max_y = None
    /\ min_y # None => min_y <= max_y

\* what a valid frame of primary value v does to the running bounds
BoundsWiden(v) ==
    /\ min_y = None => (min_y' = v /\ max_y' = v)
    /\ min_y # None => (min_y' <= min_y /\ max_y' >= max_y)
    /\ min_y' <= v
    /\ v <= max_y'
    /\ min_y' \in {min_y, v}
    /\ max_y' \in {max_y, v}

\* C14: the calibration bounds are seeded by the first valid primary value
\* (min = max = that value) and afterwards only widen: min never increases, max
\* never decreases, min <= max always, after each valid frame min <= primary
\* <= max for the frame's primary value, and no other step changes them.
C14_BoundsSeededAndWiden ==
    /\ [](BoundsOrdered)
    /\ [][ IF ValidFrameStep
           THEN BoundsWiden(Primary(analyzer, results'))
           ELSE UNCHANGED <<min_y, max_y>> ]_vars

\* C14's case: the bounds have been widened on both sides of the seed
C14_Witness ==
    /\ outcome = "processed"
    /\ min_y # None
    /\ min_y < Primary(analyzer, results)
    /\ Primary(analyzer, results) < max_y

\* v lies above (below) min + (num / den) * range, for the bounds min_y', max_y'
\* the frame at hand has already updated
AboveFraction(v, num, den) == den * (v - min_y') > num * (max_y' - min_y')
BelowFraction(v, num, den) == den * (v - min_y') < num * (max_y' - min_y')

\* C15: push-ups (torso Y) and bench press (mean wrist Y), on a valid frame
\* whose updated range is > 0: the phase goes up -> down exactly when it is up
\* and primary > min + 0.6 * range, goes down -> up exactly when it is down and
\* primary < min + 0.3 * range, and is unchanged in every other case.
C15_PushBenchTransitions ==
    [][ ( /\ ValidFrameStep
          /\ analyzer \in {"_analyze_pushups", "_analyze_bench_press"}
          /\ max_y' > min_y' ) =>
            LET v == Primary(analyzer, results')
            IN /\ state' \in {"up", "down"}
               /\ (state = "up" /\ state' = "down") <=> (state = "up" /\ AboveFraction(v, 3, 5))
               /\ (state = "down" /\ state' = "up") <=> (state = "down" /\ BelowFraction(v, 3, 10)) ]_vars

\* C15's case: a bench-press run went down and came back up, and then a frame
\* between the two thresholds left it up
C15_Witness ==
    /\ analyzer = "_analyze_bench_press"
    /\ outcome = "processed"
    /\ closes = 1
    /\ opens = 1
    /\ state = "up"
    /\ 10 * (Primary(analyzer, results) - min_y) >= 3 * (max_y - min_y)
    /\ 5 * (Primary(analyzer, results) - min_y) <= 3 * (max_y - min_y)

\* the fractions of the range at which analyzer fn enters and leaves the
\* active phase, in hundredths
EnterPct(fn) == IF fn = "_analyze_pullups" THEN 30 ELSE 35
ExitPct(fn) == IF fn = "_analyze_pullups" THEN 70 ELSE 65

Running == analyzer # NoAnalyzer

\* window-open and window-close events have alternated so far, an open first:
\* as many closes as opens in the rest phase, one less in the active phase
OpensClosesAlternate ==
    /\ closes \in {opens, opens - 1}
    /\ state = ActivePhase(analyzer) <=> opens = closes + 1
    /\ state = RestPhase(analyzer) <=> opens = closes

\* C17: every exercise starts in its rest phase (push-ups and bench press 'up',
\* pull-ups, curls and crunches 'down'), and in every run window-open and
\* window-close events strictly alternate, starting with an open: the closes
\* are as many as the opens or one less, the phase is active exactly when
\* opens = closes + 1, and no step both opens and closes a window.
C17_StartsAtRestAndAlternates ==
    /\ []( (Running /\ frame_idx = 0) =>
              /\ opens = 0
              /\ analyzer \in {"_analyze_pushups", "_analyze_bench_press"} => state = "up"
              /\ analyzer \in {"_analyze_pullups", "_analyze_curls", "_analyze_crunches"}
                    => state = "down" )
    /\ []( Running => OpensClosesAlternate )
    /\ [][ /\ opens' \in {opens, opens + 1}
           /\ closes' \in {closes, closes + 1}
           /\ opens' + closes' <= opens + closes + 1 ]_vars

\* C17's case: a crunches run has opened and closed two windows
C17_Witness ==
    /\ analyzer = "_analyze_crunches"
    /\ pc = "loop"
    /\ opens = 2
    /\ closes = 2
    /\ state = "down"

\* the record the step has appended
NewRep == rep_details'[Len(rep_details')]

\* the step closes a window of analyzer fn and appends its record
Graded(fn) == analyzer = fn /\ ClosingStep /\ Len(rep_details') = Len(rep_details) + 1

\* the status and feedback of a push-up rep follow the median of its window
\* (Median2 is twice the median of the samples, which are kept times Scale)
PushupStatusByMedian ==
    LET median2 == Median2(current_rep_angles')
    IN IF median2 <= 2 * Scale * 75
       THEN NewRep.status = "good"
       ELSE NewRep.status = "bad" /\ NewRep.feedback = <<"Elbow flare too wide">>

\* C18 as claimed: a push-up rep is graded from the median of the flare samples
\* of its window: 'good' when median <= 75, 'bad' with the elbow-flare feedback
\* when median > 75, and metric_value is that median.
C18_Claimed_MetricIsMedian ==
    [][ Graded("_analyze_pushups") =>
            /\ PushupStatusByMedian
            /\ 2 * Scale * NewRep.metric_value = 10 * Median2(current_rep_angles') ]_vars

\* C18 as amended: a push-up rep is graded from the median of the flare samples
\* of its window: 'good' when median <= 75, 'bad' with the elbow-flare feedback
\* when median > 75 (samples [60, 62, 61] -> good, [80, 82, 81] -> bad), and
\* metric_value is that median rounded to one decimal: a whole number of
\* tenths at most half a tenth away from it.
C18_MetricIsRoundedMedian ==
    [][ Graded("_analyze_pushups") =>
            /\ PushupStatusByMedian
            /\ 2 * Scale * NewRep.metric_value - 10 * Median2(current_rep_angles') \in -Scale..Scale
            /\ current_rep_angles' = <<Scale * 60, Scale * 62, Scale * 61>> =>
                  (NewRep.status = "good" /\ NewRep.metric_value = 610)
            /\ current_rep_angles' = <<Scale * 80, Scale * 82, Scale * 81>> =>
                  (NewRep.status = "bad" /\ NewRep.metric_value = 810) ]_vars

\* C18's case: the window [75.5, 76], of median 75.75, has been graded bad with
\* the metric 75.8
C18_Witness ==
    /\ analyzer = "_analyze_pushups"
    /\ closes = 1
    /\ current_rep_angles = <<(Scale * 151) \div 2, Scale * 76>>
    /\ Len(rep_details) = 1
    /\ rep_details[1].status = "bad"
    /\ rep_details[1].metric_value = 758

\* C19: a pull-up rep is 'good' if and only if on at least one valid frame of
\* its window, from the frame that opens it through the frame that closes it,
\* the nose Y is strictly less than the mean Y of the visible shoulders, and
\* 'bad' with the 'Chin did not clear bar height' feedback otherwise:
\* chin_above_bar is the opening frame's verdict after the opening step, every
\* later valid frame of the window (the closing one included) adds its verdict,
\* no other step changes it, and the closing step grades by it.
C19_PullupGoodIffChinCleared ==
    [][ analyzer = "_analyze_pullups" =>
          /\ OpeningStep => (chin_above_bar' <=> ChinCleared(results'))
          /\ (state = "up" /\ ValidFrameStep) =>
                (chin_above_bar' <=> (chin_above_bar \/ ChinCleared(results')))
          /\ (state = "up" /\ ~ValidFrameStep) => (chin_above_bar' <=> chin_above_bar)
          /\ ClosingStep =>
                /\ Len(rep_details') = Len(rep_details) + 1
                /\ IF chin_above_bar'
                   THEN NewRep.status = "good"
                   ELSE /\ NewRep.status = "bad"
                        /\ NewRep.feedback = <<"Chin did not clear bar height">> ]_vars

\* C19's case: a window whose last frame shows no shoulder has been closed and
\* graded good, for the chin cleared on an earlier frame of it
C19_Witness ==
    /\ analyzer = "_analyze_pullups"
    /\ outcome = "processed"
    /\ state = "down"
    /\ closes = 1
    /\ ~Has(results, L_SHOULDER)
    /\ ~Has(results, R_SHOULDER)
    /\ rep_details[1].status = "good"

\* the verdicts of a bench-press window w (samples times Scale): its minimum
\* elbow angle is below 70, above 110, its last sample (the closing frame's
\* elbow angle) is not above 160
TooDeep(w) == \E i \in DOMAIN w : w[i] < 70 * Scale
TooShallow(w) == \A i \in DOMAIN w : w[i] > 110 * Scale
NoLockout(w) == w[Len(w)] <= 160 * Scale

\* status and feedback of the bench-press rep the step has appended follow the
\* verdicts of its window
BenchStatusByVerdicts ==
    LET w == current_rep_angles'
    IN /\ NewRep.status = "good" <=> (~TooDeep(w) /\ ~TooShallow(w) /\ ~NoLockout(w))
       /\ NewRep.status \in {"good", "bad"}
       /\ NewRep.status = "bad" =>
             /\ "Went too deep" \in Range(NewRep.feedback) <=> TooDeep(w)
             /\ "Insufficient depth" \in Range(NewRep.feedback) <=> TooShallow(w)
             /\ "Did not fully lock out at the top" \in Range(NewRep.feedback) <=> NoLockout(w)

Rom(w) == SeqMax(w) - SeqMin(w)

\* the population standard deviation of the non-empty list u of samples (kept
\* times Scale) is above bound: with n = Len(u) and S the sum, the sum of the
\* squares of (n * u[i] - S) is above bound^2 * Scale^2 * n^3
Swinging(u, bound) ==
    LET n == Len(u)
        dev2 == [i \in DOMAIN u |-> (n * u[i] - SumSeq(u)) * (n * u[i] - SumSeq(u))]
    IN SumSeq(dev2) > bound * bound * Scale * Scale * n * n * n

\* status and feedback of the curls rep the step has appended follow the range
\* of motion of its window and the deviation of its upper-arm samples; a
\* window without an upper-arm sample has no deviation to fail on
CurlStatusByVerdicts ==
    LET w == current_rep_angles'
        u == upper_arm_angles'
        limited == Rom(w) < 80 * Scale
        swing == u # <<>> /\ Swinging(u, 12)
    IN /\ NewRep.status = "good" <=> (~limited /\ ~swing)
       /\ NewRep.status \in {"good", "bad"}
       /\ NewRep.status = "bad" =>
             /\ "Limited range of motion" \in Range(NewRep.feedback) <=> limited
             /\ "Upper arm is swinging" \in Range(NewRep.feedback) <=> swing

\* C21 as claimed: a curls rep is 'good' if and only if the range of motion of
\* its window is >= 80 and the standard deviation of its upper-arm samples is
\* <= 12; ROM < 80 adds 'Limited range of motion', std > 12 adds 'Upper arm is
\* swinging'; metric_value is the ROM.
C21_Claimed_MetricIsRom ==
    [][ Graded("_analyze_curls") =>
            /\ CurlStatusByVerdicts
            /\ Scale * NewRep.metric_value = 10 * Rom(current_rep_angles') ]_vars

\* C21 as amended: a curls rep is 'good' if and only if the range of motion of
\* its window is >= 80 and the standard deviation of its upper-arm samples, if
\* it has any, is <= 12; ROM < 80 adds 'Limited range of motion', std > 12 adds
\* 'Upper arm is swinging'; metric_value is the ROM rounded to one decimal: a
\* whole number of tenths at most half a tenth away from it.
C21_MetricIsRoundedRom ==
    [][ Graded("_analyze_curls") =>
            /\ CurlStatusByVerdicts
            /\ 2 * (Scale * NewRep.metric_value - 10 * Rom(current_rep_angles')) \in -Scale..Scale ]_vars

\* C21's case: the window [89.75, 170], of range 80.25, with the upper-arm
\* samples [10, 34], of deviation 12, has been graded good with the metric 80.2
C21_Witness ==
    /\ analyzer = "_analyze_curls"
    /\ closes = 1
    /\ current_rep_angles = <<(Scale * 359) \div 4, Scale * 170>>
    /\ upper_arm_angles = <<Scale * 10, Scale * 34>>
    /\ Len(rep_details) = 1
    /\ rep_details[1].status = "good"
    /\ rep_details[1].metric_value = 802

\* status and feedback of the crunches rep the step has appended follow the
\* largest trunk angle of its window and the distance from the nose to the
\* shoulders on the closing frame; a frame without a nose has no distance to
\* fail on
CrunchStatusByVerdicts(shoulder_y, nose_y) ==
    LET max_lift == SeqMax(current_rep_angles')
        low == max_lift < 20 * Scale
        high == max_lift > 55 * Scale
        neck == nose_y # None /\ Abs(Scale * nose_y - shoulder_y) > 60 * Scale
    IN /\ NewRep.status = "good" <=> (~low /\ ~high /\ ~neck)
       /\ NewRep.status \in {"good", "bad"}
       /\ NewRep.status = "bad" =>
             /\ "Insufficient lift" \in Range(NewRep.feedback) <=> low
             /\ "Over-flexion" \in Range(NewRep.feedback) <=> high
             /\ "Neck appears strained" \in Range(NewRep.feedback) <=> neck

\* the step is an iteration of _analyze_crunches on a frame whose shoulders are
\* at shoulder_y (times Scale) and whose nose is at nose_y, and it closes a rep
CrunchCloses(shoulder_y, nose_y) ==
    /\ Graded("_analyze_crunches")
    /\ max_y' = Max2(max_y, shoulder_y)
    /\ \E t \in GradeTrunks : CrunchesMachine(shoulder_y, t, nose_y)

\* C22 as claimed: a crunches rep is 'good' if and only if the maximum trunk
\* angle over its window is within [20, 55] and the vertical nose-to-shoulder
\* distance on the closing frame is <= 60; max < 20 adds 'Insufficient lift',
\* max > 55 adds 'Over-flexion', distance > 60 adds 'Neck appears strained';
\* metric_value is the maximum trunk angle.
C22_Claimed_MetricIsMaxLift ==
    [][ \A y \in {GradeRest, GradeTop}, n \in GradeNoses :
          CrunchCloses(Scale * y, n) =>
            /\ CrunchStatusByVerdicts(Scale * y, n)
            /\ Scale * NewRep.metric_value = 10 * SeqMax(current_rep_angles') ]_vars

\* C22 as amended: the same grading, with metric_value the maximum trunk angle
\* rounded to one decimal: a whole number of tenths at most half a tenth away
\* from it.
C22_MetricIsRoundedMaxLift ==
    [][ \A y \in {GradeRest, GradeTop}, n \in GradeNoses :
          CrunchCloses(Scale * y, n) =>
            /\ CrunchStatusByVerdicts(Scale * y, n)
            /\ 2 * (Scale * NewRep.metric_value - 10 * SeqMax(current_rep_angles')) \in -Scale..Scale ]_vars

\* C22's case: a window whose largest trunk angle is 40.25 has been graded good
\* with the metric 40.2, after a rep with the largest angle 55 was graded good
C22_Witness ==
    /\ analyzer = "_analyze_crunches"
    /\ closes = 2
    /\ SeqMax(current_rep_angles) = (Scale * 161) \div 4
    /\ Len(rep_details) = 2
    /\ rep_details[1].status = "good"
    /\ rep_details[1].metric_value = 550
    /\ rep_details[2].status = "good"
    /\ rep_details[2].metric_value = 402

\* the rep the step has appended is bad exactly when a condition of `fired`
\* fired, its feedback is then the fired clauses in the order of `order`, and
\* otherwise it is good with the one string `affirm`
VerdictFollows(order, fired, affirm) ==
    /\ NewRep.status = "bad" <=> fired # {}
    /\ fired # {} => NewRep.feedback = SelectSeq(order, LAMBDA c : c \in fired)
    /\ fired = {} => (NewRep.status = "good" /\ NewRep.feedback = <<affirm>>)

BenchOrder == <<"Went too deep", "Insufficient depth", "Did not fully lock out at the top">>

BenchFired ==
    LET w == current_rep_angles'
    IN {c \in Range(BenchOrder) :
          \/ c = "Went too deep" /\ TooDeep(w)
          \/ c = "Insufficient depth" /\ TooShallow(w)
          \/ c = "Did not fully lock out at the top" /\ NoLockout(w)}

CurlOrder == <<"Limited range of motion", "Upper arm is swinging">>

CurlFired ==
    LET w == current_rep_angles'
        u == upper_arm_angles'
    IN {c \in Range(CurlOrder) :
          \/ c = "Limited range of motion" /\ Rom(w) < 80 * Scale
          \/ c = "Upper arm is swinging" /\ u # <<>> /\ Swinging(u, 12)}

CrunchOrder == <<"Insufficient lift", "Over-flexion", "Neck appears strained">>

CrunchFired(shoulder_y, nose_y) ==
    LET max_lift == SeqMax(current_rep_angles')
    IN {c \in Range(CrunchOrder) :
          \/ c = "Insufficient lift" /\ max_lift < 20 * Scale
          \/ c = "Over-flexion" /\ max_lift > 55 * Scale
          \/ c = "Neck appears strained" /\ nose_y # None
                /\ Abs(Scale * nose_y - shoulder_y) > 60 * Scale}

\* the feedback of the appended rep never holds both clauses a and b
NeverBoth(a, b) == ~({a, b} \subseteq Range(NewRep.feedback))

\* C23: for bench press, curls and crunches, a rep's status is 'bad' if and only
\* if at least one failure condition fired; its feedback is then exactly the
\* clauses of all fired conditions in a fixed order (the two depth/lift clauses
\* of one exercise never both appear), and when none fired the status is
\* 'good' with the single affirming feedback string.
C23_BadIffSomeConditionFired ==
    [][ /\ Graded("_analyze_bench_press") =>
              /\ VerdictFollows(BenchOrder, BenchFired, "Good depth and full lockout")
              /\ NeverBoth("Went too deep", "Insufficient depth")
        /\ Graded("_analyze_curls") =>
              VerdictFollows(CurlOrder, CurlFired, "Good range of motion and stable upper arm")
        /\ \A y \in {GradeRest, GradeTop}, n \in GradeNoses :
              CrunchCloses(Scale * y, n) =>
                /\ VerdictFollows(CrunchOrder, CrunchFired(Scale * y, n),
                                  "Good crunch form - proper lift and neutral neck")
                /\ NeverBoth("Insufficient lift", "Over-flexion") ]_vars

\* C23's case: a curl on which no condition fired has been graded good with the
\* affirming string, and then a curl on which both conditions fired has been
\* graded bad with both clauses
C23_Witness ==
    /\ analyzer = "_analyze_curls"
    /\ Len(rep_details) = 2
    /\ rep_details[1].status = "good"
    /\ rep_details[1].feedback = <<"Good range of motion and stable upper arm">>
    /\ rep_details[2].status = "bad"
    /\ rep_details[2].feedback = CurlOrder

\* two conditions fired on a bench-press rep and on a crunches rep
C23_WitnessBench ==
    /\ analyzer = "_analyze_bench_press"
    /\ \E i \in DOMAIN rep_details :
          rep_details[i].feedback = <<"Insufficient depth", "Did not fully lock out at the top">>

C23_WitnessCrunch ==
    /\ analyzer = "_analyze_crunches"
    /\ \E i \in DOMAIN rep_details :
          rep_details[i].feedback = <<"Over-flexion", "Neck appears strained">>

\* the tier of a suggestion: the clause that opens it
Tier(suggestion) == Head(suggestion)

Tiers ==
    {"No reps detected", "Excellent form on all", "Good form on", "Form broke down on", "Only"}

\* the tier the counts call for
TierOf(good_reps, total_reps) ==
    CASE total_reps = 0 -> "No reps detected"
      [] total_reps # 0 /\ good_reps = total_reps -> "Excellent form on all"
      [] total_reps # 0 /\ good_reps # total_reps /\ 4 * good_reps >= 3 * total_reps ->
            "Good form on"
      [] total_reps # 0 /\ 4 * good_reps < 3 * total_reps /\ 2 * good_reps >= total_reps ->
            "Form broke down on"
      [] total_reps # 0 /\ 2 * good_reps < total_reps -> "Only"

\* the step computes the load suggestion of the returned result
Suggests == pc = "done" /\ pc' = "suggested"

\* C24: generate_load_suggestion is a total function of (good_reps, total_reps)
\* that picks exactly one tier: total_reps == 0 -> 'No reps detected'; good ==
\* total -> praise; otherwise 4*good >= 3*total -> maintain load; otherwise
\* 2*good >= total -> reduce 5-10%; otherwise -> reduce significantly; the
\* exercise name never changes the tier, and every (good, total) of a result
\* (0 <= good <= total) falls in one of these tiers.
C24_SuggestionTierFollowsCounts ==
    [][ Suggests =>
          LET res == result[1]
          IN /\ 0 <= res.good_reps /\ res.good_reps <= res.total_reps
             /\ load_suggestion' # <<>>
             /\ Tier(load_suggestion') \in Tiers
             /\ Tier(load_suggestion') = TierOf(res.good_reps, res.total_reps)
             /\ \A name \in ExerciseNames :
                   generate_load_suggestion(name, res.good_reps, res.total_reps)
                      = load_suggestion' ]_vars

\* C24's case: the suggestion of a result with 3 good reps of 4 has been
\* computed, and it is the one that maintains the load
C24_Witness ==
    /\ pc = "suggested"
    /\ result[1].good_reps = 3
    /\ result[1].total_reps = 4
    /\ load_suggestion = <<"Good form on", 3, 4, "Maintain current load">>

ReturnsAsAlone(w) ==
    w.pc = "done" => w.result = <<RunAlone(w.analyzer, w.fed)>>

\* C26: when two analysis runs (same or different exercises, different videos)
\* execute with their per-frame steps interleaved in any order, each returns
\* exactly the result it returns when executed alone: no calibration, phase,
\* accumulator or count is shared between runs.
C26_InterleavedRunsReturnAsAlone ==
    ReturnsAsAlone(Me) /\ ReturnsAsAlone(other)

\* C26's case: a run has returned a result with a rep while the run of another
\* exercise, on another video, is suspended in the middle of a rep
C26_Witness ==
    /\ pc = "done"
    /\ result[1].total_reps = 1
    /\ other.pc = "loop"
    /\ other.analyzer # analyzer
    /\ other.opens = 1 /\ other.closes = 0
    /\ other.frame_idx > 3 /\ other.frame_idx < frame_idx

\* both runs have returned a result with a rep, one a good rep and one a bad one
C26_WitnessBoth ==
    /\ pc = "done" /\ other.pc = "done"
    /\ analyzer # other.analyzer
    /\ result[1].good_reps = 1
    /\ other.result[1].bad_reps = 1

\* the step is an iteration of the loop of the running worker
ReadsFrame == other' = other /\ pc = "loop" /\ frame_idx' = frame_idx + 1

\* C27: with FRAME_STRIDE = 3, exactly the frames whose 1-based index is
\* divisible by 3 reach the detector and the state machine; the others change
\* no state; the result equals that of running without stride on the
\* subsequence of the sampled frames.
C27_EveryThirdFrameSampled ==
    /\ [](Len(fed) = frame_idx \div 3)
    /\ [](pc = "done" => result[1] = RunAlone(analyzer, fed))
    /\ [][ReadsFrame =>
            /\ fed' # fed <=> frame_idx' % 3 = 0
            /\ frame_idx' % 3 # 0 => UNCHANGED <<results, locals, result, opens, closes>>]_vars

\* C27's case: a run has read nine frames, of which the third, sixth and ninth
\* have reached the detector, and has returned a result with a rep
C27_Witness ==
    /\ pc = "done"
    /\ frame_idx = 9
    /\ Len(fed) = 3
    /\ result[1].total_reps = 1

\* a step reads at most one frame and never goes back in the stream; the pose
\* model runs at most once in a step and only on a frame the step has read;
\* a capture that was released is not opened again; a call that has returned
\* does not run again
OnePassStep ==
    /\ frame_idx' \in {frame_idx, frame_idx + 1}
    /\ Len(fed') \in {Len(fed), Len(fed) + 1}
    /\ fed' # fed => (frame_idx' = frame_idx + 1 /\ Sampled(frame_idx'))
    /\ cap = "released" => cap' = "released"
    /\ pc = "done" => pc' = "done"

Present(p, idx) == _get_keypoint(p.kpts, idx) # NoKp

\* the joints of `joints` that are present in the person p, in order
PresentJoints(p, joints) == SelectSeq(joints, LAMBDA j : Present(p, j))

\* the mean (times Scale) of the non-empty list xs
MeanOf(xs) == (Scale * SumSeq(xs)) \div Len(xs)

\* the mean Y (times Scale) of the joints of `joints` present in p
PresentMeanY(p, joints) ==
    LET js == PresentJoints(p, joints)
    IN MeanOf([i \in DOMAIN js |-> p.kpts[js[i] + 1][2]])

\* the arms of p whose shoulder, elbow and wrist are all present, as <<elbow, wrist>>
CompleteArms(p) ==
    SelectSeq(<<<<L_SHOULDER, L_ELBOW, L_WRIST>>, <<R_SHOULDER, R_ELBOW, R_WRIST>>>>,
              LAMBDA t : Present(p, t[1]) /\ Present(p, t[2]) /\ Present(p, t[3]))

\* the primary signal of a valid frame whose main person is p, from the
\* present joints alone
PrimaryOfPresent(fn, p) ==
    CASE fn = "_analyze_pushups" ->
            PresentMeanY(p, <<L_SHOULDER, R_SHOULDER, L_ELBOW, R_ELBOW, L_HIP, R_HIP>>)
      [] fn = "_analyze_pullups" -> Scale * p.kpts[NOSE + 1][2]
      [] fn = "_analyze_bench_press" ->
            LET arms == CompleteArms(p)
            IN MeanOf([i \in DOMAIN arms |-> p.kpts[arms[i][3] + 1][2]])
      [] fn = "_analyze_curls" ->
            LET arms == CompleteArms(p)
            IN MeanOf([i \in DOMAIN arms |-> p.ang[arms[i][2]]])
      [] fn = "_analyze_crunches" -> PresentMeanY(p, <<L_SHOULDER, R_SHOULDER>>)

\* the push-up flare of p (times Scale): the mean of the angles above 10 at the
\* shoulders whose side (shoulder, hip, elbow) is wholly present, 0 without one
FlareOfPresent(p) ==
    LET sides == SelectSeq(<<<<L_SHOULDER, L_HIP, L_ELBOW>>, <<R_SHOULDER, R_HIP, R_ELBOW>>>>,
                           LAMBDA t : Present(p, t[1]) /\ Present(p, t[2]) /\ Present(p, t[3])
                                      /\ p.ang[t[1]] > 10)
    IN IF sides = <<>> THEN 0
       ELSE MeanOf([i \in DOMAIN sides |-> p.ang[sides[i][1]]])

\* the joints the analyzers pass to _get_keypoint
ReadJoints ==
    {NOSE, L_SHOULDER, R_SHOULDER, L_ELBOW, R_ELBOW, L_WRIST, R_WRIST, L_HIP, R_HIP}

\* C29: _get_keypoint returns the joint's coordinates if and only if its index
\* is within the keypoint array and both its x and y are non-zero; otherwise it
\* returns None (a joint with exactly one zero coordinate is absent), and an
\* absent joint never contributes a value to any mean, angle or threshold: the
\* primary signal that seeds and widens the range the thresholds are taken
\* from, and the push-up flare that enters the window, are those of the
\* present joints alone.
C29_AbsentJointContributesNothing ==
    /\ [](Detected(results) =>
            LET kpts == _extract_main_person(results).kpts
            IN \A idx \in ReadJoints :
                  _get_keypoint(kpts, idx) =
                     IF idx < Len(kpts) /\ kpts[idx + 1][1] # 0 /\ kpts[idx + 1][2] # 0
                     THEN kpts[idx + 1] ELSE NoKp)
    /\ [][ (DetectorStep /\ Detected(results') /\ outcome' = "processed") =>
             LET p == _extract_main_person(results')
                 v == PrimaryOfPresent(analyzer, p)
             IN /\ min_y = None => (min_y' = v /\ max_y' = v)
                /\ min_y' = Min2(IF min_y = None THEN v ELSE min_y, v)
                /\ max_y' = Max2(IF max_y = None THEN v ELSE max_y, v)
                /\ (analyzer = "_analyze_pushups" /\ state' = "down" /\ state = "down") =>
                      LET flare == FlareOfPresent(p)
                      IN flare > 0 =>
                            current_rep_angles' = Append(current_rep_angles, flare) ]_vars

\* C29's case: a push-up frame with the left shoulder at Y = 1 and a right
\* shoulder that has a zero X has been the first valid frame, and the range
\* was seeded with the left shoulder's Y alone
C29_Witness ==
    /\ analyzer = "_analyze_pushups"
    /\ outcome = "processed"
    /\ Has(results, L_SHOULDER)
    /\ MainKpts(results)[R_SHOULDER + 1] = <<0, MaxY>>
    /\ min_y = Scale * 1
    /\ max_y = Scale * 1

\* the capital letters and the small ones, in the same order
Capitals ==
    <<"A", "B", "C", "D", "E", "F", "G", "H", "I", "J", "K", "L", "M",
      "N", "O", "P", "Q", "R", "S", "T", "U", "V", "W", "X", "Y", "Z">>
Smalls ==
    <<"a", "b", "c", "d", "e", "f", "g", "h", "i", "j", "k", "l", "m",
      "n", "o", "p", "q", "r", "s", "t", "u", "v", "w", "x", "y", "z">>

\* the characters c and d are the same letter in either case, or the same character
SameLetter(c, d) ==
    \/ c = d
    \/ \E i \in DOMAIN Capitals : {c, d} = {Capitals[i], Smalls[i]}

\* the names a and b differ in the case of their letters at most
SameName(a, b) ==
    /\ Len(a) = Len(b)
    /\ \A i \in DOMAIN a : SameLetter(a[i], b[i])

\* the analyzer of each exercise seed_exercises creates
SeededAnalyzer ==
    (<<"P", "u", "s", "h", "-", "u", "p", "s">> :> "_analyze_pushups")
    @@ (<<"P", "u", "l", "l", "-", "u", "p", "s">> :> "_analyze_pullups")
    @@ (<<"B", "e", "n", "c", "h", " ", "P", "r", "e", "s", "s">> :> "_analyze_bench_press")
    @@ (<<"C", "u", "r", "l", "s">> :> "_analyze_curls")
    @@ (<<"C", "r", "u", "n", "c", "h", "e", "s">> :> "_analyze_crunches")

\* C30: exercise names are matched case-insensitively, and every name seeded by
\* seed_exercises ('Push-ups', 'Pull-ups', 'Bench Press', 'Curls', 'Crunches')
\* resolves to an analyzer in ANALYZERS, so analyze_video never raises
\* ValueError for a seeded exercise: a call with a seeded name, in any case of
\* its letters, runs the analyzer of that exercise.
C30_SeededNamesResolve ==
    pc # "idle" =>
        \A seeded \in DOMAIN SeededAnalyzer :
            SameName(exercise_name, seeded) =>
                /\ pc # "ValueError"
                /\ analyzer = SeededAnalyzer[seeded]
                /\ analyzer \in Range(ANALYZERS)

\* C30's case: the call with "Bench Press" is in the loop of _analyze_bench_press
C30_Witness ==
    /\ exercise_name = <<"B", "e", "n", "c", "h", " ", "P", "r", "e", "s", "s">>
    /\ pc = "loop"
    /\ analyzer = "_analyze_bench_press"
    /\ frame_idx > 0

\* the call with "PULL-UPS" has returned a result of _analyze_pullups
C30_WitnessCapitals ==
    /\ exercise_name = <<"P", "U", "L", "L", "-", "U", "P", "S">>
    /\ pc = "done"
    /\ analyzer = "_analyze_pullups"

\* the row that analyze_form has created carries the result of the analysis
\* and the suggestion computed from its counts
RowCarriesResult(row) ==
    /\ row.total_reps = result[1].total_reps
    /\ row.good_reps = result[1].good_reps
    /\ row.bad_reps = result[1].bad_reps
    /\ row.rep_details = result[1].rep_details
    /\ row.load_suggestion =
          generate_load_suggestion(exercise_name, result[1].good_reps, result[1].total_reps)

\* C31: in analyze_form, once the temp file has been created it is deleted on
\* every path before the response is returned; if writing the file or
\* analyze_video raises, the response is 500 and no FormAnalysis record is
\* created; a record is created only after a successful analysis (in the step
\* that follows the return of analyze_video, with the 201) and carries the
\* analysis counts, rep_details and the load suggestion computed from
\* (good_reps, total_reps).
C31_TempFileDeletedRowOnlyOnSuccess ==
    /\ [](response # 0 => tmp \in {"none", "deleted"})
    /\ [](tmp = "none" => response \in {0, 400, 404})
    /\ []((response # 0 /\ tmp = "deleted" /\ pc \in {"idle", "ValueError", "raised"}) =>
             (response = 500 /\ analyses = <<>>))
    /\ []((pc \in {"ValueError", "raised"} /\ response # 0) => response = 500)
    /\ [](analyses # <<>> =>
             /\ Len(analyses) = 1
             /\ pc = "suggested"
             /\ response = 201
             /\ RowCarriesResult(analyses[1]))
    /\ [][ analyses' # analyses =>
             (pc = "done" /\ tmp = "exists" /\ tmp' = "deleted" /\ response' = 201) ]_vars
    /\ [][ (tmp = "deleted" => tmp' = "deleted") /\ (response # 0 => UNCHANGED vars) ]_vars

\* C31's case: the analysis of a curls video returned one bad rep, the row was
\* created with it and the temp file is gone
C31_Witness ==
    /\ response = 201
    /\ tmp = "deleted"
    /\ analyzer = "_analyze_curls"
    /\ Len(analyses) = 1
    /\ analyses[1].total_reps = 1
    /\ analyses[1].bad_reps = 1
    /\ analyses[1].load_suggestion[1] = "Only"

\* C31's other cases: the pose model raised in mid-video, the name had no
\* analyzer, a write raised; each time 500, no row and no temp file
C31_WitnessRaised ==
    /\ pc = "raised" /\ frame_idx > 3
    /\ response = 500 /\ tmp = "deleted" /\ analyses = <<>>
C31_WitnessValueError ==
    /\ pc = "ValueError"
    /\ response = 500 /\ tmp = "deleted" /\ analyses = <<>>
C31_WitnessWrite ==
    /\ pc = "idle"
    /\ response = 500 /\ tmp = "deleted" /\ analyses = <<>>

\* C32: the push-up analyzer is a faithful port of the prototype: for every
\* sequence of per-frame keypoints, after every frame and in the result
\* returned, the good and bad counts of _analyze_pushups equal good_count and
\* bad_count of the prototype's push-up loop run with the flare threshold at 75.
C32_PushupsPortFaithful ==
    analyzer = "_analyze_pushups" =>
       /\ good = proto.good_count
       /\ bad = proto.bad_count
       /\ pc = "done" => /\ result[1].good_reps = proto.good_count
                         /\ result[1].bad_reps = proto.bad_count

\* C32's case: a video of two push-ups, one good and one bad, has been run
\* through both loops
C32_Witness ==
    /\ analyzer = "_analyze_pushups"
    /\ pc = "done"
    /\ proto.good_count = 1
    /\ proto.bad_count = 1
    /\ result[1].total_reps = 2

PullupsAgree ==
    /\ state = proto.state
    /\ min_y = proto.min_y
    /\ max_y = proto.max_y
    /\ chin_above_bar = proto.chin_above_bar
    /\ good + bad = proto.total_reps
    /\ good = proto.good_count

\* the frame r shows a nose and no shoulder
NoseOnly(r) ==
    /\ Detected(r)
    /\ Has(r, NOSE)
    /\ ~Has(r, L_SHOULDER)
    /\ ~Has(r, R_SHOULDER)

Descending(s) == \A i \in 1..(Len(s) - 1) : s[i] > s[i + 1]

\* C34: with CursorPagination over a queryset ordered by descending id and a
\* page size between 1 and 50, requesting the first page and then repeatedly
\* requesting ?cursor=<next_cursor> until has_more is false returns every item
\* that existed at the first request exactly once, in descending id order,
\* even if new items (with larger ids) are inserted between requests; no page
\* holds more than 50 items.
C34_PagingReturnsEachItemOnce ==
    /\ Descending(listing.received)
    /\ Range(listing.received) \subseteq listing.first
    /\ (listing.started /\ ~paginator.has_more) => Range(listing.received) = listing.first
    /\ paginator.has_more => paginator.items # <<>>
    /\ Len(paginator.items) <= 50

\* C34's case: a client has paged through its 52 analyses, in more than two
\* pages, while two more were inserted
C34_Witness ==
    /\ listing.started
    /\ ~paginator.has_more
    /\ Len(listing.received) = max_page_size + 2
    /\ Len(analyses) = max_page_size + 4
    /\ Len(paginator.items) = 1

\* the exit condition of the analyzer holds of the primary value v, for the
\* bounds the frame at hand has already updated
ExitHolds(v) ==
    IF analyzer \in {"_analyze_pushups", "_analyze_bench_press"}
    THEN BelowFraction(v, 3, 10)
    ELSE AboveFraction(v, ExitPct(analyzer), 100)

\* C35: in no exercise can a rep window open and close on the same frame: on
\* the frame that enters the active phase the exit condition is never also
\* satisfied, so every recorded rep spans at least two valid frames (its
\* record is appended by a frame that found the window open).
C35_NoWindowOpensAndClosesOnOneFrame ==
    /\ [][ ~(opens' # opens /\ closes' # closes) ]_vars
    /\ [][ (ValidFrameStep /\ opens' # opens) =>
              /\ ~ExitHolds(Primary(analyzer, results'))
              /\ state' = ActivePhase(analyzer)
              /\ rep_details' = rep_details ]_vars
    /\ [][ rep_details' # rep_details =>
              /\ ValidFrameStep
              /\ state = ActivePhase(analyzer)
              /\ opens' = opens
              /\ opens = closes + 1 ]_vars

\* C35's case: the shortest rep there is: the second valid frame of a crunches
\* video opened the window and the third one closed it
C35_Witness ==
    /\ analyzer = "_analyze_crunches"
    /\ frame_idx = 3 * FRAME_STRIDE
    /\ outcome = "processed"
    /\ opens = 1
    /\ closes = 1
    /\ Len(rep_details) = 1

\* C36: a rep window that is still open when the frame stream ends is never
\* graded or counted: the step that ends the stream appends no record and
\* counts nothing, and the returned total_reps is the number of the records
\* appended by closing transitions (good + bad, at most the number of windows
\* closed, and below the number of windows opened when one is open), whatever
\* samples the open window has accumulated.
C36_OpenWindowNeverCounted ==
    /\ [][ (pc = "loop" /\ pc' = "done") =>
              /\ UNCHANGED <<rep_details, good, bad, opens, closes, state, current_rep_angles>>
              /\ result'[1].total_reps = good + bad
              /\ result'[1].rep_details = rep_details ]_vars
    /\ [](pc \in {"done", "suggested"} =>
              /\ result[1].total_reps = Len(rep_details)
              /\ result[1].total_reps <= closes
              /\ analyzer # "_analyze_pushups" => result[1].total_reps = closes
              /\ state = ActivePhase(analyzer) =>
                    (opens = closes + 1 /\ result[1].total_reps < opens))

\* C36's case: a curls video ended inside its second rep, whose window held two
\* samples; one rep is returned
C36_Witness ==
    /\ pc = "done"
    /\ analyzer = "_analyze_curls"
    /\ state = "up"
    /\ Len(current_rep_angles) = 2
    /\ opens = 2
    /\ result[1].total_reps = 1

\* the primary value v is a strictly new running extreme in the direction of
\* the active phase: a maximum for push-ups and bench press, a minimum for
\* pull-ups, curls and crunches
NewExtreme(v) ==
    /\ min_y # None
    /\ IF analyzer \in {"_analyze_pushups", "_analyze_bench_press"}
       THEN v > max_y
       ELSE v < min_y

\* C37: while in the rest phase, any valid frame whose primary value sets a
\* strictly new running extreme in the active direction opens a rep window
\* regardless of how small the movement is: a strictly new maximum for
\* push-ups and bench press, a strictly new minimum for pull-ups, curls and
\* crunches.
C37_NewExtremeOpensWindow ==
    [][ (ValidFrameStep /\ state = RestPhase(analyzer)
           /\ NewExtreme(Primary(analyzer, results'))) =>
            /\ state' = ActivePhase(analyzer)
            /\ opens' = opens + 1
            /\ closes' = closes ]_vars

\* C37's case: the second valid frame of a push-up video, one pixel below the
\* first, opened a window, and a later frame recorded the rep; the range is
\* that pixel
C37_Witness ==
    /\ analyzer = "_analyze_pushups"
    /\ frame_idx = 3 * FRAME_STRIDE
    /\ outcome = "processed"
    /\ max_y - min_y = Scale
    /\ opens = 1
    /\ Len(rep_details) = 1

\* the same in the other direction: a pull-up video, one pixel
C37_WitnessPullups ==
    /\ analyzer = "_analyze_pullups"
    /\ frame_idx = 3 * FRAME_STRIDE
    /\ outcome = "processed"
    /\ max_y - min_y = Scale
    /\ opens = 1
    /\ Len(rep_details) = 1

\* the frame the step has processed shows neither shoulder
NoShoulders == ~Has(results', L_SHOULDER) /\ ~Has(results', R_SHOULDER)

\* a curls rep whose window has no upper-arm sample is graded by its range of
\* motion alone, and a crunches rep whose closing frame has no nose by its
\* largest trunk angle alone
GradedWithoutSecondary ==
    /\ (Graded("_analyze_curls") /\ upper_arm_angles' = <<>>) =>
          /\ NewRep.status = "good" <=> Rom(current_rep_angles') >= 80 * Scale
          /\ NewRep.status \in {"good", "bad"}
          /\ "Upper arm is swinging" \notin Range(NewRep.feedback)
    /\ (Graded("_analyze_crunches") /\ ~Has(results', NOSE)) =>
          /\ NewRep.status = "good" <=>
                (SeqMax(current_rep_angles') >= 20 * Scale
                   /\ SeqMax(current_rep_angles') <= 55 * Scale)
          /\ NewRep.status \in {"good", "bad"}
          /\ "Neck appears strained" \notin Range(NewRep.feedback)

\* C38 as claimed: missing secondary data never fails a rep: a pull-up frame
\* without visible shoulders leaves chin_above_bar unchanged, a curls rep whose
\* window has no upper-arm sample passes the swing check, and a crunches rep
\* whose closing frame has no nose passes the neck check; the rep's status is
\* then decided by the remaining conditions only.
C38_Claimed_MissingSecondaryNeverFails ==
    [][ /\ (analyzer = "_analyze_pullups" /\ ValidFrameStep /\ NoShoulders) =>
              (chin_above_bar' <=> chin_above_bar)
        /\ GradedWithoutSecondary ]_vars

\* C38 as amended: a pull-up frame without visible shoulders never sets
\* chin_above_bar: inside an open window it leaves the flag unchanged, and when
\* it opens a window it resets the flag to false, so that a window none of
\* whose frames shows a shoulder is graded bad; a curls rep whose window has no
\* upper-arm sample passes the swing check, and a crunches rep whose closing
\* frame has no nose passes the neck check, the status of these two being
\* decided by the remaining conditions only.
C38_MissingSecondaryAddsNoVerdict ==
    [][ /\ (analyzer = "_analyze_pullups" /\ ValidFrameStep /\ NoShoulders) =>
              /\ chin_above_bar' <=> (chin_above_bar /\ ~OpeningStep)
              /\ (Graded("_analyze_pullups") /\ ~chin_above_bar) =>
                    NewRep.status = "bad"
        /\ GradedWithoutSecondary ]_vars

\* C38's case: a pull-up frame without shoulders, inside the window the frame
\* before it opened with the chin over the bar, has left the flag set
C38_Witness ==
    /\ analyzer = "_analyze_pullups"
    /\ outcome = "processed"
    /\ frame_idx = 3 * FRAME_STRIDE
    /\ state = "up"
    /\ opens = 1
    /\ chin_above_bar
    /\ ~Has(results, L_SHOULDER)
    /\ ~Has(results, R_SHOULDER)

\* a pull-up frame without shoulders has opened the second window and reset
\* the flag the first, good, rep had left set
C38_WitnessReset ==
    /\ analyzer = "_analyze_pullups"
    /\ outcome = "processed"
    /\ state = "up"
    /\ opens = 2
    /\ closes = 1
    /\ rep_details[1].status = "good"
    /\ ~chin_above_bar
    /\ ~Has(results, L_SHOULDER)
    /\ ~Has(results, R_SHOULDER)

\* a pull-up window none of whose frames showed a shoulder has been graded bad
C38_WitnessNeverSeen ==
    /\ analyzer = "_analyze_pullups"
    /\ outcome = "processed"
    /\ frame_idx = 3 * FRAME_STRIDE
    /\ state = "down"
    /\ closes = 1
    /\ ~Has(results, L_SHOULDER)
    /\ ~Has(results, R_SHOULDER)
    /\ rep_details[1].status = "bad"

\* a curls window without an upper-arm sample has been graded good
C38_WitnessCurls ==
    /\ analyzer = "_analyze_curls"
    /\ closes = 1
    /\ state = "down"
    /\ upper_arm_angles = <<>>
    /\ Len(rep_details) = 1
    /\ rep_details[1].status = "good"

\* a crunches window whose closing frame has no nose has been graded good
C38_WitnessCrunches ==
    /\ analyzer = "_analyze_crunches"
    /\ outcome = "processed"
    /\ closes = 1
    /\ state = RestPhase("_analyze_crunches")
    /\ ~Has(results, NOSE)
    /\ Len(rep_details) = 1
    /\ rep_details[1].status = "good"

\* the analyzers whose grade reads a fallback value on an empty window
\* (lines 352, 457-458, 548)
WithFallback == {"_analyze_bench_press", "_analyze_curls", "_analyze_crunches"}

\* C39: for bench press, curls and crunches the window accumulator is never
\* empty when a window closes: the frame that opens a window leaves its own
\* sample in it and the frame that closes it appends its own as the last of at
\* least two, so the fallback values (0 for bench and crunches, 90 for curls)
\* are never read; and for curls every recorded rep has an unrounded range of
\* motion strictly greater than 0.3 times the running range at the closing
\* frame.
C39_WindowNeverEmptyAtClose ==
    [][ (analyzer \in WithFallback) =>
          /\ OpeningStep => current_rep_angles' = OwnSamples(analyzer, results')
          /\ ClosingStep =>
                /\ Len(rep_details') = Len(rep_details) + 1
                /\ current_rep_angles # <<>>
                /\ current_rep_angles' =
                      current_rep_angles \o OwnSamples(analyzer, results')
                /\ Len(current_rep_angles') >= 2
          /\ Graded("_analyze_curls") =>
                100 * Rom(current_rep_angles') > 30 * (max_y' - min_y') ]_vars

\* C39's case: a curls window of the opening and the closing frame alone has
\* been closed and recorded
C39_Witness ==
    /\ analyzer = "_analyze_curls"
    /\ outcome = "processed"
    /\ state = "down"
    /\ closes = 1
    /\ Len(current_rep_angles) = 2
    /\ Len(rep_details) = 1
    /\ max_y > min_y

\* a curls rep whose range of motion is less than the running range
C39_WitnessPartial ==
    /\ analyzer = "_analyze_curls"
    /\ outcome = "processed"
    /\ state = "down"
    /\ Len(rep_details) >= 1
    /\ closes = Len(rep_details)
    /\ Rom(current_rep_angles) < max_y - min_y

\* the same for bench press and crunches
C39_WitnessBench ==
    /\ analyzer = "_analyze_bench_press"
    /\ outcome = "processed"
    /\ state = RestPhase("_analyze_bench_press")
    /\ closes = 1
    /\ Len(current_rep_angles) = 2
    /\ Len(rep_details) = 1

C39_WitnessCrunches ==
    /\ analyzer = "_analyze_crunches"
    /\ outcome = "processed"
    /\ state = RestPhase("_analyze_crunches")
    /\ closes = 1
    /\ Len(current_rep_angles) = 2
    /\ Len(rep_details) = 1

=============================================================================
